---------------------------- MODULE Spec2Model ----------------------------
(***************************************************************************)
(* A model of org-rs: the cursor crate (metrics, lexemes, the Emacs-style  *)
(* cursor operations and the bounded searches) and the element crate's     *)
(* headline metric, syntax classification and element-phase parser.        *)
(*                                                                         *)
(* A buffer is a sequence of bytes (numbers).  Offsets are 0-based as in   *)
(* the source, so the byte at offset o of s is s[o + 1].  Option<T> is a   *)
(* sequence: None is << >> and Some(x) is << x >>.  A panic (a failed      *)
(* debug_assert, an index or slice out of range, a slice that is not on a  *)
(* char boundary, unimplemented!()) is recorded in the field `failed` of   *)
(* the result of an operation.                                             *)
(***************************************************************************)
EXTENDS Integers, Sequences, FiniteSets, TLC

VARIABLES
    data,      \* Cursor.data: the borrowed buffer
    pos,       \* Cursor.pos: the byte offset
    op,        \* the operation that produced this state
    arg,       \* its arguments, under the operation's name
    ret,       \* its return value, under the operation's name
    old,       \* pos before the operation
    failed,    \* the operation panicked
    granularity  \* Parser.granularity

vars == << data, pos, op, arg, ret, old, failed, granularity >>

-----------------------------------------------------------------------------
(* Bounds of the model *)

\* longest buffer, in bytes
MaxLen == 3

\* largest |n| given to line_beginning_position / line_end_position
MaxN == 3

-----------------------------------------------------------------------------
(* Bytes *)

NL == 10
SP == 32
STAR == 42
BAR == 124
CH_A == 97
\* the two bytes of a two-byte codepoint (U+0417)
LEAD == 208
CONT == 151
\* the leading byte of a three-byte codepoint (U+25D7 with two CONT bytes)
LEAD3 == 226

Alphabet == { NL, SP, STAR, BAR, CH_A, LEAD, CONT, LEAD3 }

None == << >>
Some(x) == << x >>
IsSome(o) == Len(o) = 1
IsNone(o) == Len(o) = 0
Unwrap(o) == o[1]
UnwrapOr(o, d) == IF IsSome(o) THEN o[1] ELSE d

Min(a, b) == IF a <= b THEN a ELSE b
Abs(x) == IF x < 0 THEN 0 - x ELSE x

\* the byte at offset o
At(s, o) == s[o + 1]
\* &s[a..b]
Slice(s, a, b) == SubSeq(s, a + 1, b)

\* sequences over S of length at most n
SeqsUpTo(S, n) == UNION { [1..k -> S] : k \in 0..n }

\* a valid UTF-8 buffer: a lead byte is followed by its one or two
\* continuation bytes, and a continuation byte belongs to a lead byte
ValidUtf8(s) ==
    /\ \A i \in 1..Len(s) : s[i] = LEAD => (i < Len(s) /\ s[i + 1] = CONT)
    /\ \A i \in 1..Len(s) :
          s[i] = LEAD3 => (i + 1 < Len(s) /\ s[i + 1] = CONT /\ s[i + 2] = CONT)
    /\ \A i \in 1..Len(s) :
          s[i] = CONT => \/ (i > 1 /\ s[i - 1] \in { LEAD, LEAD3 })
                         \/ (i > 2 /\ s[i - 2] = LEAD3 /\ s[i - 1] = CONT)

Buffers == { s \in SeqsUpTo(Alphabet, MaxLen) : ValidUtf8(s) }

-----------------------------------------------------------------------------
(* lib.rs, memchr, str *)

\* a length table that takes every leading byte for a one-byte codepoint
len_utf8_always_one(b) == 1

len_utf8_from_first_byte(b) ==
    IF b < 128 THEN 1
    ELSE IF b < 224 THEN 2
    ELSE IF b < 240 THEN 3
    ELSE 4

\* str::is_char_boundary
is_char_boundary(s, index) ==
    IF index = 0 THEN TRUE
    ELSE IF index >= Len(s) THEN index = Len(s)
    ELSE ~(At(s, index) >= 128 /\ At(s, index) < 192)

\* memchr::memchr: the index of the first b in t
memchr(b, t) ==
    IF \E i \in 1..Len(t) : t[i] = b
    THEN Some((CHOOSE i \in 1..Len(t) : t[i] = b /\ \A j \in 1..(i - 1) : t[j] # b) - 1)
    ELSE None

\* memchr::memrchr: the index of the last b in t
memrchr(b, t) ==
    IF \E i \in 1..Len(t) : t[i] = b
    THEN Some((CHOOSE i \in 1..Len(t) : t[i] = b /\ \A j \in (i + 1)..Len(t) : t[j] # b) - 1)
    ELSE None

\* char::is_whitespace, on the alphabet
is_whitespace(b) == b \in { NL, SP }

-----------------------------------------------------------------------------
(* metrics.rs *)

Char_is_boundary(s, offset) == is_char_boundary(s, offset)

Char_prev_len(s, offset) ==
    CHOOSE len \in 1..offset :
        /\ is_char_boundary(s, offset - len)
        /\ \A l \in 1..(len - 1) : ~is_char_boundary(s, offset - l)

Char_prev(s, offset) ==
    IF offset = 0 THEN None ELSE Some(offset - Char_prev_len(s, offset))

\* s.as_bytes()[offset] is out of range
Char_next_panics(s, offset) == offset > Len(s)

Char_next(s, offset) ==
    IF offset = Len(s) THEN None
    ELSE Some(offset + len_utf8_from_first_byte(At(s, offset)))

\* s.as_bytes()[offset - 1] is out of range
Line_is_boundary_panics(s, offset) == offset > Len(s)

Line_is_boundary(s, offset) ==
    IF offset = 0 THEN FALSE ELSE At(s, offset - 1) = NL

\* debug_assert!(offset > 0); without it offset - 1 wraps and the slice
\* [..offset - 1] is out of range
Line_prev_panics(s, offset) == offset = 0 \/ offset - 1 > Len(s)

\* a Line::prev that searches [..offset], the newline before offset included
Line_prev_upto_offset(s, offset) ==
    LET m == memrchr(NL, Slice(s, 0, offset))
    IN  IF IsSome(m) THEN Some(Unwrap(m) + 1) ELSE None

Line_prev(s, offset) ==
    LET m == memrchr(NL, Slice(s, 0, offset - 1))
    IN  IF IsSome(m) THEN Some(Unwrap(m) + 1) ELSE None

\* the slice [offset..] is out of range
Line_next_panics(s, offset) == offset > Len(s)

\* a Line::next that searches [offset + 1..], past a newline at offset itself
Line_next_past_offset(s, offset) ==
    LET m == memchr(NL, Slice(s, Min(offset + 1, Len(s)), Len(s)))
    IN  IF IsSome(m) THEN Some(Min(offset + 1, Len(s)) + Unwrap(m) + 1) ELSE None

Line_next(s, offset) ==
    LET m == memchr(NL, Slice(s, offset, Len(s)))
    IN  IF IsSome(m) THEN Some(offset + Unwrap(m) + 1) ELSE None

-----------------------------------------------------------------------------
(* lexeme.rs: an address is an Interval << start, end >> *)

Interval(start, end) == [start |-> start, end |-> end]

Char_find_prev(s, offset) ==
    LET beg == Char_prev(s, offset)
    IN  IF IsSome(beg) THEN Some(Interval(Unwrap(beg), Unwrap(beg))) ELSE None

Char_find_next_panics(s, offset) == Char_next_panics(s, offset)

Char_find_next(s, offset) ==
    LET beg == Char_next(s, offset)
    IN  IF IsSome(beg) THEN Some(Interval(Unwrap(beg), Unwrap(beg))) ELSE None

\* s[at..].chars().next(): the first byte of the codepoint stands for it
chars_next(s, at) == IF at >= Len(s) THEN None ELSE Some(At(s, at))

\* the slice s[at..] is out of range or not on a char boundary
str_from_panics(s, at) == at > Len(s) \/ ~is_char_boundary(s, at)

\* Char::get_next: the char at offset, addressed at the next boundary
Char_get_next_panics(s, offset) ==
    \/ Char_find_next_panics(s, offset)
    \/ (IsSome(Char_find_next(s, offset)) /\ str_from_panics(s, offset))

Char_get_next(s, offset) ==
    LET i == Char_find_next(s, offset)
    IN  IF IsSome(i)
        THEN LET c == chars_next(s, offset)
             IN  IF IsSome(c) THEN Some([value |-> Unwrap(c), address |-> Unwrap(i)])
                 ELSE None
        ELSE None

\* Char::get_prev: the char at the previous boundary
Char_get_prev(s, offset) ==
    LET i == Char_find_prev(s, offset)
    IN  IF IsSome(i)
        THEN LET c == chars_next(s, Unwrap(i).start)
             IN  IF IsSome(c) THEN Some([value |-> Unwrap(c), address |-> Unwrap(i)])
                 ELSE None
        ELSE None

Line_find_prev_panics(s, offset) ==
    \/ Line_is_boundary_panics(s, offset)
    \/ (~Line_is_boundary(s, offset) /\ Line_prev_panics(s, offset))

Line_find_prev(s, offset) ==
    LET e == IF Line_is_boundary(s, offset) THEN Some(offset) ELSE Line_prev(s, offset)
    IN  IF IsNone(e) THEN None
        ELSE LET b == Line_prev(s, Unwrap(e))
             IN  Some(Interval(UnwrapOr(b, 0), Unwrap(e)))

Line_find_next_panics(s, offset) == Line_is_boundary_panics(s, offset)

Line_find_next(s, offset) ==
    LET b == IF Line_is_boundary(s, offset) THEN Some(offset) ELSE Line_next(s, offset)
    IN  IF IsNone(b) THEN None
        ELSE LET e == Line_next(s, Unwrap(b))
             IN  Some(Interval(Unwrap(b), UnwrapOr(e, Len(s))))

-----------------------------------------------------------------------------
(* Regular expressions.  find(re, t) is regex::Regex::find on the text t:  *)
(* the leftmost match, as Some(Interval) with offsets into t.              *)

\* the length of the longest run of bytes of S in t from offset i
RECURSIVE Run(_, _, _)
Run(t, i, S) == IF i < Len(t) /\ At(t, i) \in S THEN 1 + Run(t, i + 1, S) ELSE 0

Blank == { SP }
Space == { SP, NL }

\* REGEX_TABLE_BORDER  [ \t]*\|
REGEX_TABLE_BORDER == "[ \\t]*\\|"
\* REGEX_HEADLINE_SHORT  ^\*+\s
REGEX_HEADLINE_SHORT == "^\\*+\\s"
\* REGEX_HEADLINE_MULTILINE  (?m)^\*+\s
REGEX_HEADLINE_MULTILINE == "(?m)^\\*+\\s"
\* REGEX_EMPTY_LINE  ^[ \t]*$
REGEX_EMPTY_LINE == "^[ \\t]*$"

Regexes == { REGEX_TABLE_BORDER, REGEX_HEADLINE_SHORT, REGEX_HEADLINE_MULTILINE,
             REGEX_EMPTY_LINE }

\* the end of the match of re that starts at offset i of t, or -1
MatchEnd(re, t, i) ==
    CASE re = REGEX_TABLE_BORDER ->
            LET j == i + Run(t, i, Blank)
            IN  IF j < Len(t) /\ At(t, j) = BAR THEN j + 1 ELSE -1
      [] re = REGEX_HEADLINE_SHORT ->
            LET j == i + Run(t, i, { STAR })
            IN  IF i = 0 /\ j > i /\ j < Len(t) /\ At(t, j) \in Space THEN j + 1 ELSE -1
      [] re = REGEX_HEADLINE_MULTILINE ->
            LET j == i + Run(t, i, { STAR })
            IN  IF (i = 0 \/ At(t, i - 1) = NL) /\ j > i /\ j < Len(t) /\ At(t, j) \in Space
                THEN j + 1 ELSE -1
      [] re = REGEX_EMPTY_LINE ->
            IF i = 0 /\ Run(t, 0, Blank) = Len(t) THEN Len(t) ELSE -1

find(re, t) ==
    IF \E i \in 0..Len(t) : MatchEnd(re, t, i) >= 0
    THEN LET i == CHOOSE i \in 0..Len(t) :
                    /\ MatchEnd(re, t, i) >= 0
                    /\ \A j \in 0..(i - 1) : MatchEnd(re, t, j) < 0
         IN  Some(Interval(i, MatchEnd(re, t, i)))
    ELSE None

is_match(re, t) == IsSome(find(re, t))

\* is_multiline_regex: the pattern text holds \n, \r or [[:space:]]
MultilineRegexes == { }
is_multiline_regex(re) == re \in MultilineRegexes

-----------------------------------------------------------------------------
(* headline.rs: HeadlineMetric, over the element crate's LinesMetric (the   *)
(* same code as the cursor crate's Line metric)                             *)

Headline_is_boundary_panics(s, offset) == offset > Len(s)

Headline_is_boundary(s, offset) ==
    LET beg == IF offset = 0 \/ Line_is_boundary(s, offset) THEN offset
               ELSE UnwrapOr(Line_prev(s, offset), 0)
        end == UnwrapOr(Line_next(s, offset), Len(s))
    IN  is_match(REGEX_HEADLINE_SHORT, Slice(s, beg, end))

\* is_boundary fails, or the slice s[offset..] is not on a char boundary
Headline_next_panics(s, offset) ==
    \/ Headline_is_boundary_panics(s, offset)
    \/ (~Headline_is_boundary(s, offset) /\ str_from_panics(s, offset))

Headline_next(s, offset) ==
    LET beg == IF Headline_is_boundary(s, offset) THEN Line_next(s, offset)
               ELSE Some(offset)
    IN  IF IsNone(beg) THEN None
        ELSE LET p == find(REGEX_HEADLINE_MULTILINE, Slice(s, Unwrap(beg), Len(s)))
             IN  IF IsSome(p) THEN Some(Unwrap(beg) + Unwrap(p).start) ELSE None

Headline_prev_panics(s, offset) == offset > Len(s)

RECURSIVE Headline_prev(_, _)
Headline_prev(s, pos0) ==
    IF pos0 = 0 THEN None
    ELSE LET end == IF Line_is_boundary(s, pos0) THEN Some(pos0) ELSE Line_prev(s, pos0)
         IN  IF IsNone(end) THEN None
             ELSE LET beg == UnwrapOr(Line_prev(s, Unwrap(end)), 0)
                  IN  IF is_match(REGEX_HEADLINE_SHORT, Slice(s, beg, Unwrap(end)))
                      THEN Some(beg)
                      ELSE Headline_prev(s, beg)

-----------------------------------------------------------------------------
(* The Metric trait, by type parameter *)

Metrics == { "Char", "Line" }

Metric_is_boundary_panics(M, s, offset) ==
    CASE M = "Char" -> FALSE
      [] M = "Line" -> Line_is_boundary_panics(s, offset)

Metric_is_boundary(M, s, offset) ==
    CASE M = "Char" -> Char_is_boundary(s, offset)
      [] M = "Line" -> Line_is_boundary(s, offset)

Metric_prev_panics(M, s, offset) ==
    CASE M = "Char" -> FALSE
      [] M = "Line" -> Line_prev_panics(s, offset)

Metric_prev(M, s, offset) ==
    CASE M = "Char" -> Char_prev(s, offset)
      [] M = "Line" -> Line_prev(s, offset)

Metric_next_panics(M, s, offset) ==
    CASE M = "Char" -> Char_next_panics(s, offset)
      [] M = "Line" -> Line_next_panics(s, offset)

Metric_next(M, s, offset) ==
    CASE M = "Char" -> Char_next(s, offset)
      [] M = "Line" -> Line_next(s, offset)

-----------------------------------------------------------------------------
(* cursor.rs: MetricCursor and LexemeCursor.  An operation on a cursor at  *)
(* p returns [pos, ret, failed]: the cursor's offset afterwards, the value *)
(* returned, and whether it panicked (pos is then the offset at the panic). *)

R(p, r) == [pos |-> p, ret |-> r, failed |-> FALSE]
Panic(p) == [pos |-> p, ret |-> None, failed |-> TRUE]

mnext(M, s, p) ==
    IF Metric_next_panics(M, s, p) THEN Panic(p)
    ELSE LET l == Metric_next(M, s, p)
         IN  IF IsSome(l) THEN R(Unwrap(l), l) ELSE R(p, None)

mprev(M, s, p) ==
    IF Metric_prev_panics(M, s, p) THEN Panic(p)
    ELSE LET offset == Metric_prev(M, s, p)
         IN  IF IsSome(offset) THEN R(Unwrap(offset), offset) ELSE R(p, None)

at_or_mnext(M, s, p) ==
    IF Metric_is_boundary_panics(M, s, p) THEN Panic(p)
    ELSE IF Metric_is_boundary(M, s, p) THEN R(p, Some(p))
    ELSE mnext(M, s, p)

at_or_mprev(M, s, p) ==
    IF Metric_is_boundary_panics(M, s, p) THEN Panic(p)
    ELSE IF Metric_is_boundary(M, s, p) THEN R(p, Some(p))
    ELSE mprev(M, s, p)

Lexemes == { "Char", "Line" }

Lexeme_find_prev_panics(L, s, offset) ==
    CASE L = "Char" -> FALSE
      [] L = "Line" -> Line_find_prev_panics(s, offset)

Lexeme_find_prev(L, s, offset) ==
    CASE L = "Char" -> Char_find_prev(s, offset)
      [] L = "Line" -> Line_find_prev(s, offset)

Lexeme_find_next_panics(L, s, offset) ==
    CASE L = "Char" -> Char_find_next_panics(s, offset)
      [] L = "Line" -> Line_find_next_panics(s, offset)

Lexeme_find_next(L, s, offset) ==
    CASE L = "Char" -> Char_find_next(s, offset)
      [] L = "Line" -> Line_find_next(s, offset)

lprev(L, s, p) ==
    IF Lexeme_find_prev_panics(L, s, p) THEN Panic(p)
    ELSE LET i == Lexeme_find_prev(L, s, p)
         IN  IF IsSome(i) THEN R(Unwrap(i).start, i) ELSE R(p, None)

lnext(L, s, p) ==
    IF Lexeme_find_next_panics(L, s, p) THEN Panic(p)
    ELSE LET i == Lexeme_find_next(L, s, p)
         IN  IF IsSome(i) THEN R(Unwrap(i).start, i) ELSE R(p, None)

\* get_lnext::<Char>
get_lnext_Char(s, p) ==
    IF Char_get_next_panics(s, p) THEN Panic(p)
    ELSE LET item == Char_get_next(s, p)
         IN  IF IsSome(item) THEN R(Unwrap(item).address.start, Some(Unwrap(item).value))
             ELSE R(p, None)

\* get_lprev::<Char>
get_lprev_Char(s, p) ==
    LET item == Char_get_prev(s, p)
    IN  IF IsSome(item) THEN R(Unwrap(item).address.start, Some(Unwrap(item).value))
        ELSE R(p, None)

\* get_lnext::<Line>: Line::get_next gives the text s[i.start..i.end] of the
\* line Line::find_next finds
get_lnext_Line(s, p) ==
    IF Line_find_next_panics(s, p) THEN Panic(p)
    ELSE LET i == Line_find_next(s, p)
         IN  IF IsSome(i)
             THEN R(Unwrap(i).start, Some(Slice(s, Unwrap(i).start, Unwrap(i).end)))
             ELSE R(p, None)

\* get_lprev::<Line>
get_lprev_Line(s, p) ==
    IF Line_find_prev_panics(s, p) THEN Panic(p)
    ELSE LET i == Line_find_prev(s, p)
         IN  IF IsSome(i)
             THEN R(Unwrap(i).start, Some(Slice(s, Unwrap(i).start, Unwrap(i).end)))
             ELSE R(p, None)

-----------------------------------------------------------------------------
(* emacs.rs: EmacsCursor *)

char_after(s, p, offset) ==
    LET result == get_lnext_Char(s, offset)
    IN  IF result.failed THEN result ELSE R(p, result.ret)

\* a skip_whitespace that does not step back over the char that ended the run
RECURSIVE skip_whitespace_no_lprev(_, _)
skip_whitespace_no_lprev(s, cur) ==
    LET c == get_lnext_Char(s, cur)
    IN  IF c.failed THEN c
        ELSE IF IsNone(c.ret) THEN R(c.pos, c.pos)
        ELSE IF ~is_whitespace(Unwrap(c.ret)) THEN R(c.pos, c.pos)
        ELSE skip_whitespace_no_lprev(s, c.pos)

\* the loop of skip_whitespace, the cursor at cur
RECURSIVE skip_whitespace(_, _)
skip_whitespace(s, cur) ==
    LET c == get_lnext_Char(s, cur)
    IN  IF c.failed THEN c
        ELSE IF IsNone(c.ret) THEN R(c.pos, c.pos)
        ELSE IF ~is_whitespace(Unwrap(c.ret))
             THEN LET b == lprev("Char", s, c.pos) IN R(b.pos, b.pos)
        ELSE skip_whitespace(s, c.pos)

\* the end of the text looking_at and capturing_at match against
looking_at_end(s, p, re) ==
    IF ~is_multiline_regex(re)
    THEN LET n == Line_next(s, p) IN IF IsSome(n) THEN Unwrap(n) - 1 ELSE Len(s)
    ELSE Len(s)

\* Line::next fails, or the slice data[pos..end] is not on a char boundary
looking_at_panics(s, p, re) ==
    \/ (~is_multiline_regex(re) /\ Line_next_panics(s, p))
    \/ p > Len(s)
    \/ ~is_char_boundary(s, p)

looking_at(s, p, re) ==
    IF looking_at_panics(s, p, re) THEN Panic(p)
    ELSE R(p, find(re, Slice(s, p, looking_at_end(s, p, re))))

\* capturing_at: the same text, regex::Regex::captures; group 0 is the match
capturing_at(s, p, re) ==
    IF looking_at_panics(s, p, re) THEN Panic(p)
    ELSE R(p, find(re, Slice(s, p, looking_at_end(s, p, re))))

is_bol_panics(s, p) == p # 0 /\ Line_is_boundary_panics(s, p)

is_bol(s, p) == IF p = 0 THEN TRUE ELSE Line_is_boundary(s, p)

\* a goto_line_begin that calls mprev::<Line> where the code calls
\* at_or_mprev::<Line>
goto_line_begin_mprev(s, p) ==
    IF p = 0 THEN R(p, p)
    ELSE LET a == mprev("Line", s, p)
         IN  IF a.failed THEN a
             ELSE IF IsNone(a.ret) THEN R(0, 0)
             ELSE R(a.pos, a.pos)

goto_line_begin(s, p) ==
    IF p = 0 THEN R(p, p)
    ELSE LET a == at_or_mprev("Line", s, p)
         IN  IF a.failed THEN a
             ELSE IF IsNone(a.ret) THEN R(0, 0)
             ELSE R(a.pos, a.pos)

\* a forward loop that stops where it is, without eof(), when no line follows
RECURSIVE lbp_forward_no_eof(_, _, _)
lbp_forward_no_eof(s, cur, k) ==
    IF k <= 0 THEN R(cur, None)
    ELSE LET m == mnext("Line", s, cur)
         IN  IF m.failed THEN m
             ELSE IF IsNone(m.ret) THEN R(cur, None)
             ELSE lbp_forward_no_eof(s, m.pos, k - 1)

\* for _ in 0..k { if mnext::<Line>().is_none() { eof(); break } }
RECURSIVE lbp_forward(_, _, _)
lbp_forward(s, cur, k) ==
    IF k <= 0 THEN R(cur, None)
    ELSE LET m == mnext("Line", s, cur)
         IN  IF m.failed THEN m
             ELSE IF IsNone(m.ret) THEN R(Len(s), None)
             ELSE lbp_forward(s, m.pos, k - 1)

\* for _ in 0..k { if mprev::<Line>().is_none() { bof(); break } }
RECURSIVE lbp_backward(_, _, _)
lbp_backward(s, cur, k) ==
    IF k <= 0 THEN R(cur, None)
    ELSE LET m == mprev("Line", s, cur)
         IN  IF m.failed THEN m
             ELSE IF IsNone(m.ret) THEN R(0, None)
             ELSE lbp_backward(s, m.pos, k - 1)

\* a line_beginning_position whose backward branch returns without set(pos)
line_beginning_position_unrestored(s, p, n) ==
    LET moved ==
            IF IsNone(n) \/ n = Some(1) THEN goto_line_begin(s, p)
            ELSE IF Unwrap(n) > 1 THEN lbp_forward(s, p, Unwrap(n) - 1)
            ELSE LET g == goto_line_begin(s, p)
                 IN  IF g.failed THEN g
                     ELSE IF g.pos # 0 THEN lbp_backward(s, g.pos, Abs(Unwrap(n) - 1))
                     ELSE g
    IN  IF moved.failed THEN moved
        ELSE IF IsSome(n) /\ Unwrap(n) < 1 THEN R(moved.pos, moved.pos)
        ELSE R(p, moved.pos)

line_beginning_position(s, p, n) ==
    LET moved ==
            IF IsNone(n) \/ n = Some(1) THEN goto_line_begin(s, p)
            ELSE IF Unwrap(n) > 1 THEN lbp_forward(s, p, Unwrap(n) - 1)
            ELSE LET g == goto_line_begin(s, p)
                 IN  IF g.failed THEN g
                     ELSE IF g.pos # 0 THEN lbp_backward(s, g.pos, Abs(Unwrap(n) - 1))
                     ELSE g
    IN  IF moved.failed THEN moved ELSE R(p, moved.pos)

\* for _ in 0..k { if mnext::<Line>().is_none() { eof() } }
RECURSIVE lep_forward(_, _, _)
lep_forward(s, cur, k) ==
    IF k <= 0 THEN R(cur, None)
    ELSE LET m == mnext("Line", s, cur)
         IN  IF m.failed THEN m
             ELSE lep_forward(s, IF IsNone(m.ret) THEN Len(s) ELSE m.pos, k - 1)

\* for _ in 0..=k { if mprev::<Line>().is_none() { break } }, k + 1 rounds
RECURSIVE lep_backward(_, _, _)
lep_backward(s, cur, rounds) ==
    IF rounds <= 0 THEN R(cur, None)
    ELSE LET m == mprev("Line", s, cur)
         IN  IF m.failed THEN m
             ELSE IF IsNone(m.ret) THEN R(cur, None)
             ELSE lep_backward(s, m.pos, rounds - 1)

line_end_position(s, p, n) ==
    LET moved ==
            IF IsNone(n) \/ n = Some(1) THEN mnext("Line", s, p)
            ELSE IF Unwrap(n) > 1 THEN lep_forward(s, p, Unwrap(n))
            ELSE IF p # 0 THEN lep_backward(s, p, Abs(Unwrap(n)) + 1)
            ELSE R(p, None)
    IN  IF moved.failed THEN moved
        ELSE LET result == mprev("Char", s, moved.pos)
             IN  R(p, UnwrapOr(result.ret, 0))

-----------------------------------------------------------------------------
(* search.rs: SearchCursor *)

\* the loop of skip_chars_forward: the cursor at cur, count chars skipped
RECURSIVE scf_loop(_, _, _, _, _, _)
scf_loop(s, p, str, limit, cur, count) ==
    LET c == get_lnext_Char(s, cur)
    IN  IF c.failed THEN c
        ELSE IF IsNone(c.ret) THEN R(c.pos, count)
        ELSE IF Unwrap(c.ret) \notin str
             THEN R(mprev("Char", s, c.pos).pos, count)
        ELSE IF count + p > limit
             THEN R(mprev("Char", s, c.pos).pos, count)
        ELSE scf_loop(s, p, str, limit, c.pos, count + 1)

skip_chars_forward(s, p, str, limit) ==
    LET lim == UnwrapOr(limit, Len(s))
    IN  IF p >= lim THEN R(p, 0)
        ELSE scf_loop(s, p, str, lim, p, 0)

\* the loop of skip_chars_backward
RECURSIVE scb_loop(_, _, _, _, _)
scb_loop(s, str, limit, cur, count) ==
    LET c == get_lprev_Char(s, cur)
    IN  IF IsNone(c.ret) THEN R(c.pos, count)
        ELSE IF Unwrap(c.ret) \notin str
             THEN R(mnext("Char", s, c.pos).pos, count)
        ELSE IF c.pos < limit
             THEN R(mnext("Char", s, c.pos).pos, count)
        ELSE scb_loop(s, str, limit, c.pos, count + 1)

\* a skip_chars_backward that takes no notice of its limit
skip_chars_backward_no_limit(s, p, str, limit) ==
    IF p <= 0 THEN R(p, 0)
    ELSE scb_loop(s, str, 0, p, 0)

skip_chars_backward(s, p, str, limit) ==
    LET lim == UnwrapOr(limit, 0)
    IN  IF p <= lim THEN R(p, 0)
        ELSE scb_loop(s, str, lim, p, 0)

\* str::match_indices: the start offsets, from offset i of t, of the
\* non-overlapping occurrences of the non-empty str, leftmost first
RECURSIVE match_indices(_, _, _)
match_indices(t, str, i) ==
    IF i + Len(str) > Len(t) THEN << >>
    ELSE IF Slice(t, i, i + Len(str)) = str
         THEN << i >> \o match_indices(t, str, i + Len(str))
    ELSE match_indices(t, str, i + 1)

\* the loop of search_forward over the matches left in iter, i counting them
RECURSIVE sf_loop(_, _, _, _, _, _)
sf_loop(p, str, bound, count, iter, i) ==
    IF iter = << >> THEN R(p, None)
    ELSE IF Head(iter) + p + Len(str) > bound THEN R(p, None)
    ELSE IF count = i
         THEN R(Head(iter) + p + Len(str), Some(Head(iter) + p + Len(str)))
    ELSE sf_loop(p, str, bound, count, Tail(iter), i + 1)

search_forward(s, p, str, bound, count) ==
    LET cnt == UnwrapOr(count, 1)
        bnd == UnwrapOr(bound, Len(s))
    IN  IF bnd < p THEN R(p, None)
        ELSE sf_loop(p, str, bnd, cnt, match_indices(Slice(s, p, Len(s)), str, 0), 1)

\* &self.data[self.pos..end] panics when end is beyond the buffer or inside
\* a codepoint
re_search_forward_panics(s, p, bound) ==
    LET end == UnwrapOr(bound, Len(s))
    IN  end > p /\ (end > Len(s) \/ ~is_char_boundary(s, end))

re_search_forward(s, p, re, bound) ==
    LET end == UnwrapOr(bound, Len(s))
    IN  IF end <= p THEN R(p, None)
        ELSE LET m == find(re, Slice(s, p, end))
             IN  IF IsNone(m) THEN R(p, None)
                 ELSE R(p + Unwrap(m).end,
                        Some(Interval(p + Unwrap(m).start, p + Unwrap(m).end)))

-----------------------------------------------------------------------------
(* data.rs: the kinds of syntax nodes (SyntaxT) and their classification *)

SyntaxT ==
    { "OrgData", "BabelCall", "CenterBlock", "Clock", "Comment", "CommentBlock",
      "DiarySexp", "Drawer", "DynamicBlock", "ExampleBlock", "ExportBlock",
      "FixedWidth", "FootnoteDefinition", "Headline", "HorizontalRule",
      "InlineTask", "Item", "Keyword", "LatexEnvironment", "NodeProperty",
      "Paragraph", "PlainList", "Planning", "PropertyDrawer", "QuoteBlock",
      "Section", "SpecialBlock", "SrcBlock", "Table", "TableRow", "VerseBlock",
      "Bold", "Code", "Entity", "ExportSnippet", "FootnoteReference",
      "InlineBabelCall", "InlineSrcBlock", "Italic", "LineBreak",
      "LatexFragment", "Link", "Macro", "RadioTarget", "StatisticsCookie",
      "StrikeThrough", "Subscript", "Superscript", "TableCell", "Target",
      "Timestamp", "Underline", "Verbatim", "PlainText" }

is_greater_element(syntax) ==
    syntax \in { "CenterBlock", "Drawer", "DynamicBlock", "FootnoteDefinition",
                 "Headline", "InlineTask", "Item", "PlainList", "QuoteBlock",
                 "Section", "SpecialBlock", "Table" }

is_element(syntax) ==
    syntax \in { "BabelCall", "CenterBlock", "Clock", "Comment", "CommentBlock",
                 "DiarySexp", "Drawer", "DynamicBlock", "ExampleBlock",
                 "ExportBlock", "FixedWidth", "FootnoteDefinition", "Headline",
                 "HorizontalRule", "InlineTask", "Item", "Keyword",
                 "LatexEnvironment", "NodeProperty", "Paragraph", "PlainList",
                 "Planning", "PropertyDrawer", "QuoteBlock", "Section",
                 "SpecialBlock", "SrcBlock", "Table", "TableRow", "VerseBlock" }

is_object(syntax) ==
    syntax \in { "Bold", "Code", "Entity", "ExportSnippet", "FootnoteReference",
                 "InlineBabelCall", "InlineSrcBlock", "Italic", "LineBreak",
                 "LatexFragment", "Link", "Macro", "RadioTarget",
                 "StatisticsCookie", "StrikeThrough", "Subscript", "Superscript",
                 "TableCell", "Target", "Timestamp", "Underline", "Verbatim",
                 "PlainText" }

is_recursive_object(syntax) ==
    syntax \in { "Bold", "FootnoteReference", "Italic", "Link", "RadioTarget",
                 "StrikeThrough", "Subscript", "Superscript", "TableCell",
                 "Underline" }

is_object_container(syntax) ==
    syntax \in { "Paragraph", "TableRow", "VerseBlock", "Bold",
                 "FootnoteReference", "Italic", "Link", "RadioTarget",
                 "StrikeThrough", "Subscript", "Superscript", "TableCell",
                 "Underline" }

is_container(syntax) == is_greater_element(syntax) \/ is_object_container(syntax)

\* a standard set that keeps TableCell
is_object_with_table_cell(that) == is_object(that)

\* (standard-set (remq 'table-cell org-element-all-objects))
is_from_standard_set(that) ==
    IF that = "TableCell" THEN FALSE
    ELSE IF is_object(that) THEN TRUE
    ELSE FALSE

\* (standard-set-no-line-break (remq 'line-break standard-set))
is_from_standard_set_no_line_break(that) ==
    IF that = "LineBreak" THEN FALSE ELSE is_from_standard_set(that)

can_contain(self, that) ==
    CASE self \in { "Bold", "Italic", "FootnoteReference", "Paragraph",
                    "StrikeThrough", "Subscript", "Superscript", "Underline",
                    "VerseBlock" } ->
            is_from_standard_set(that)
      [] self \in { "Headline", "InlineTask", "Item" } ->
            is_from_standard_set_no_line_break(that)
      [] self = "Keyword" ->
            IF that = "FootnoteReference" THEN FALSE ELSE is_from_standard_set(that)
      [] self = "Link" ->
            that \in { "Bold", "Code", "Entity", "ExportSnippet", "InlineBabelCall",
                       "InlineSrcBlock", "Italic", "LatexFragment", "Macro",
                       "StatisticsCookie", "StrikeThrough", "Subscript",
                       "Superscript", "Underline", "Verbatim" }
      [] self = "RadioTarget" ->
            that \in { "Bold", "Code", "Entity", "Italic", "LatexFragment",
                       "StrikeThrough", "Subscript", "Superscript", "Underline" }
      [] self = "TableCell" ->
            that \in { "Bold", "Code", "Entity", "ExportSnippet",
                       "FootnoteReference", "Italic", "LatexFragment", "Link",
                       "Macro", "RadioTarget", "StrikeThrough", "Subscript",
                       "Superscript", "Target", "Timestamp", "Underline",
                       "Verbatim" }
      [] self = "TableRow" -> that = "TableCell"
      [] OTHER -> FALSE

\* SyntaxNode, as a leaf parser creates it: parent is Cell::new(None)
SyntaxNode(syntax, location, content_location) ==
    [data |-> syntax, location |-> location, content_location |-> content_location,
     parent |-> None, children |-> << >>]

create_root ==
    [data |-> "OrgData", location |-> Interval(0, 0), content_location |-> None,
     parent |-> None, children |-> << >>]

-----------------------------------------------------------------------------
(* element/src/cursor.rs: the cursor the parser holds *)

\* CharLexeme::get_next: the char at the NEXT boundary, addressed there
CharLexeme_get_next(s, offset) ==
    LET i == Char_find_next(s, offset)
    IN  IF IsSome(i)
        THEN LET c == chars_next(s, Unwrap(i).start)
             IN  IF IsSome(c) THEN Some([value |-> Unwrap(c), address |-> Unwrap(i)])
                 ELSE None
        ELSE None

\* Cursor::skip_whitespace of the element crate, the cursor at cur
RECURSIVE Cursor_skip_whitespace(_, _)
Cursor_skip_whitespace(s, cur) ==
    LET item == CharLexeme_get_next(s, cur)
    IN  IF IsNone(item) THEN cur
        ELSE IF ~is_whitespace(Unwrap(item).value)
             THEN UnwrapOr(Char_prev(s, Unwrap(item).address.start), Unwrap(item).address.start)
        ELSE Cursor_skip_whitespace(s, Unwrap(item).address.start)

\* on_headline: the cursor is on a headline-metric boundary
on_headline(s, p) == Headline_is_boundary(s, p)

\* next_headline: mnext::<HeadlineMetric>, None with the cursor unchanged
next_headline(s, p) ==
    LET l == Headline_next(s, p)
    IN  IF IsSome(l) THEN R(Unwrap(l), l) ELSE R(p, None)

-----------------------------------------------------------------------------
(* parser.rs and the leaf parsers of headlines and sections *)

ParserModes == { "FirstSection", "Section", "Planning", "Item", "NodeProperty",
                 "TableRow", "PropertyDrawer" }

\* a table in which the parent-entry value of a kind is also its sibling-exit
\* value
next_mode_of_parent(syntax, is_parent) ==
    CASE syntax = "Headline" -> Some("Section")
      [] syntax = "InlineTask" -> Some("Planning")
      [] syntax = "PlainList" -> Some("Item")
      [] syntax = "PropertyDrawer" -> Some("NodeProperty")
      [] syntax = "Section" -> Some("Planning")
      [] syntax = "Table" -> Some("TableRow")
      [] OTHER -> None

next_mode(syntax, is_parent) ==
    IF is_parent
    THEN CASE syntax = "Headline" -> Some("Section")
           [] syntax = "InlineTask" -> Some("Planning")
           [] syntax = "PlainList" -> Some("Item")
           [] syntax = "PropertyDrawer" -> Some("NodeProperty")
           [] syntax = "Section" -> Some("Planning")
           [] syntax = "Table" -> Some("TableRow")
           [] OTHER -> None
    ELSE CASE syntax = "Item" -> Some("Item")
           [] syntax = "NodeProperty" -> Some("NodeProperty")
           [] syntax = "Planning" -> Some("PropertyDrawer")
           [] syntax = "TableRow" -> Some("TableRow")
           [] OTHER -> None

\* org-end-of-subtree: the start of the next headline of the same or a
\* higher level (at most `level` stars), or the end of the buffer
end_of_subtree(s, begin, level) ==
    LET later == { q \in (begin + 1)..Len(s) :
                     /\ Line_is_boundary(s, q)
                     /\ Headline_is_boundary(s, q)
                     /\ Run(s, q, { STAR }) <= level }
    IN  IF later = { } THEN Len(s)
        ELSE CHOOSE q \in later : \A r \in later : q <= r

\* the headline at begin: it ends where its subtree ends, and its contents
\* begin at the first line after the headline line that is not blank
headline_parser_node(s, begin, end) ==
    LET next_line == UnwrapOr(Line_next(s, begin), Len(s))
        contents_begin == Min(next_line + Run(s, next_line, { NL }), end)
    IN  SyntaxNode("Headline", Interval(begin, end),
                   IF contents_begin # end THEN Some(Interval(contents_begin, end))
                   ELSE None)

headline_parser(s, begin, limit) ==
    headline_parser_node(s, begin,
                         Min(end_of_subtree(s, begin, Run(s, begin, { STAR })), limit))

\* the section at begin: it ends at the next headline or at limit
section_parser(s, begin, limit) ==
    LET end == Min(UnwrapOr(Headline_next(s, begin), limit), limit)
    IN  SyntaxNode("Section", Interval(begin, end), Some(Interval(begin, end)))

\* current_element, for the modes the element phase is in while only
\* headlines and sections are parsed: the other branches end in leaf parsers
\* that are unimplemented!()
current_element(s, p, limit, mode) ==
    IF mode \in { "Item", "TableRow", "NodeProperty" }
    THEN SyntaxNode("unimplemented", Interval(p, limit), None)
    ELSE IF on_headline(s, p) THEN headline_parser(s, p, limit)
    ELSE IF mode = "Section" THEN section_parser(s, p, limit)
    ELSE IF mode = "FirstSection"
         THEN section_parser(s, p, UnwrapOr(next_headline(s, p).ret, limit))
    ELSE SyntaxNode("unimplemented", Interval(p, limit), None)

\* a descent that ignores the granularity
recurses_at_any_granularity(g, element) ==
    /\ IsSome(element.content_location)
    /\ is_greater_element(element.data)

\* the element's contents are parsed as elements
recurses(g, element) ==
    /\ IsSome(element.content_location)
    /\ is_greater_element(element.data)
    /\ \/ element.data = "Headline"
       \/ g \in { "Element", "Object" }
       \/ (element.data = "Section" /\ g = "GreaterElement")

\* the element's contents are parsed as objects
parses_objects(g, element) ==
    /\ IsSome(element.content_location)
    /\ ~is_greater_element(element.data)
    /\ g = "Object"

\* what the loop of parse_elements does with the contents of the element
\* current_element returned: the call whose result replaces its children,
\* and the mode the loop goes on with
parse_elements_content(g, element, mode) ==
    LET next == UnwrapOr(next_mode(element.data, FALSE), mode)
    IN  IF recurses(g, element)
        THEN [call |-> "parse_elements",
              beg |-> Unwrap(element.content_location).start,
              end |-> Unwrap(element.content_location).end,
              with |-> UnwrapOr(next_mode(element.data, TRUE), mode),
              next |-> next]
        ELSE IF parses_objects(g, element)
        THEN [call |-> "parse_objects",
              beg |-> Unwrap(element.content_location).start,
              end |-> Unwrap(element.content_location).end,
              with |-> element.data,
              next |-> next]
        ELSE [call |-> "none", beg |-> 0, end |-> 0, with |-> "none", next |-> next]

RECURSIVE parse_elements(_, _, _, _, _)
RECURSIVE parse_elements_loop(_, _, _, _, _, _)
RECURSIVE parse_elements_push(_, _, _, _, _, _)

\* one round of the loop, current_element having returned element
parse_elements_push(s, g, end, mode, elements, element) ==
    parse_elements_loop(
        s, g, element.location.end, end,
        UnwrapOr(next_mode(element.data, FALSE), mode),
        Append(elements,
               IF recurses(g, element)
               THEN [element EXCEPT !.children =
                        parse_elements(s, g,
                                       Unwrap(element.content_location).start,
                                       Unwrap(element.content_location).end,
                                       UnwrapOr(next_mode(element.data, TRUE), mode))]
               ELSE element))

\* the loop of parse_elements, the cursor at cur
parse_elements_loop(s, g, cur, end, mode, elements) ==
    IF cur >= end THEN elements
    ELSE parse_elements_push(s, g, end, mode, elements,
                             current_element(s, cur, end, mode))

parse_elements(s, g, beg, end, mode) ==
    parse_elements_loop(
        s, g,
        IF g = "Headline" /\ ~on_headline(s, beg) THEN next_headline(s, beg).pos ELSE beg,
        end, mode, << >>)

\* parse_buffer: the root and the cursor's offset afterwards
parse_buffer(s, g) ==
    R(Cursor_skip_whitespace(s, 0),
      [create_root EXCEPT !.children = parse_elements(s, g, 0, Len(s), "FirstSection")])

-----------------------------------------------------------------------------
(* Regular expressions of the element parser, as syntax trees.  re_ends    *)
(* lists the matches of re that start at offset i of t, in the order a     *)
(* backtracking matcher prefers them (leftmost-first, greedy repetition),  *)
(* each as << end, captures >>, captures being a set of << name, start,    *)
(* end >>.                                                                 *)

TAB == 9
HASH == 35
PLUS == 43
COLON == 58

ReSet(S) == [k |-> "set", s |-> S]
ReNot(S) == [k |-> "not", s |-> S]
ReBol == [k |-> "bol"]
ReEol == [k |-> "eol"]
ReEps == [k |-> "eps"]
ReSeq(a, b) == [k |-> "seq", a |-> a, b |-> b]
ReAlt(a, b) == [k |-> "alt", a |-> a, b |-> b]
ReStar(a) == [k |-> "star", a |-> a]
RePlus(a) == ReSeq(a, ReStar(a))
ReOpt(a) == [k |-> "opt", a |-> a]
ReLazy(a) == [k |-> "lazy", a |-> a]
ReWord == [k |-> "word"]
ReGrp(n, a) == [k |-> "grp", n |-> n, a |-> a]

\* concatenation and alternation of a sequence of expressions
RECURSIVE ReCat(_)
ReCat(rs) == IF Len(rs) = 0 THEN ReEps
             ELSE IF Len(rs) = 1 THEN rs[1]
             ELSE ReSeq(rs[1], ReCat(Tail(rs)))
RECURSIVE ReAny(_)
ReAny(rs) == IF Len(rs) = 1 THEN rs[1] ELSE ReAlt(rs[1], ReAny(Tail(rs)))

\* both cases of an ASCII letter
BothCases(b) ==
    IF b \in 65..90 THEN { b, b + 32 }
    ELSE IF b \in 97..122 THEN { b, b - 32 }
    ELSE { b }

\* a literal byte string, and the same under (?i)
ReLit(bytes) == ReCat([n \in 1..Len(bytes) |-> ReSet({ bytes[n] })])
ReLitI(bytes) == ReCat([n \in 1..Len(bytes) |-> ReSet(BothCases(bytes[n]))])

\* [ \t]
ReBlank == ReSet({ SP, TAB })
\* \s restricted to the bytes of whitespace the buffers hold, \S and .
ReWhite == { SP, TAB, NL }
ReNonSpace == ReNot(ReWhite)
ReDot == ReNot({ NL })
\* [A-Za-z0-9]; \w is these, the underscore and the letter U+0417
AlNum == (48..57) \cup (65..90) \cup (97..122)

RECURSIVE re_ends(_, _, _, _)
RECURSIVE re_then(_, _, _)

\* the matches of b after each of the matches rs
re_then(rs, b, t) ==
    IF rs = << >> THEN << >>
    ELSE re_ends(b, t, Head(rs)[1], Head(rs)[2]) \o re_then(Tail(rs), b, t)

re_ends(re, t, i, c) ==
    CASE re.k = "set" ->
            IF i < Len(t) /\ At(t, i) \in re.s THEN << << i + 1, c >> >> ELSE << >>
      [] re.k = "not" ->
            IF i < Len(t) /\ At(t, i) \notin re.s
            THEN << << i + len_utf8_from_first_byte(At(t, i)), c >> >>
            ELSE << >>
      [] re.k = "bol" -> IF i = 0 THEN << << i, c >> >> ELSE << >>
      [] re.k = "eol" -> IF i = Len(t) THEN << << i, c >> >> ELSE << >>
      [] re.k = "eps" -> << << i, c >> >>
      [] re.k = "seq" -> re_then(re_ends(re.a, t, i, c), re.b, t)
      [] re.k = "alt" -> re_ends(re.a, t, i, c) \o re_ends(re.b, t, i, c)
      [] re.k = "opt" -> re_ends(re.a, t, i, c) \o << << i, c >> >>
      [] re.k = "star" ->
            re_then(SelectSeq(re_ends(re.a, t, i, c), LAMBDA m : m[1] > i), re, t)
                \o << << i, c >> >>
      [] re.k = "lazy" ->
            << << i, c >> >>
                \o re_then(SelectSeq(re_ends(re.a, t, i, c), LAMBDA m : m[1] > i), re, t)
      [] re.k = "word" ->
            IF i < Len(t) /\ At(t, i) \in AlNum \cup { 95 } THEN << << i + 1, c >> >>
            ELSE IF i < Len(t) /\ At(t, i) = LEAD THEN << << i + 2, c >> >>
            ELSE << >>
      [] re.k = "grp" ->
            LET ms == re_ends(re.a, t, i, c)
            IN  [n \in 1..Len(ms) |->
                    << ms[n][1],
                       { g \in ms[n][2] : g[1] # re.n } \cup { << re.n, i, ms[n][1] >> } >>]

\* Regex::captures(t): the leftmost match, the one the matcher prefers
Regex_captures(re, t) ==
    LET starts == { i \in 0..Len(t) : re_ends(re, t, i, { }) # << >> }
    IN  IF starts = { } THEN None
        ELSE LET i == CHOOSE i \in starts : \A j \in starts : i <= j
                 m == Head(re_ends(re, t, i, { }))
             IN  Some([start |-> i, end |-> m[1], groups |-> m[2]])

\* Regex::find(t)
Regex_find(re, t) ==
    LET m == Regex_captures(re, t)
    IN  IF IsSome(m) THEN Some(Interval(Unwrap(m).start, Unwrap(m).end)) ELSE None

\* Captures::name(n): the span of the group, if it took part in the match
Captures_name(cap, n) ==
    IF \E g \in cap.groups : g[1] = n
    THEN LET g == CHOOSE g \in cap.groups : g[1] = n
         IN  Some(Interval(g[2], g[3]))
    ELSE None

\* r"^[ \t]*$" (cursor.rs)
RE_EMPTY_LINE == ReCat(<< ReBol, ReStar(ReBlank), ReEol >>)

\* REGEX_AFFILIATED (affiliated.rs):
\* (?i)^[ \t]*#\+(?:(?:(CAPTION)|(RESULTS?))(?:\[(.*)\])?|(HEADERS?)|(PLOT)
\*      |((?:DATA|LABEL|NAME|RESNAME|(?:S(?:OURC|RCNAM)|TBLNAM)E))
\*      |(ATTR_[-_A-Za-z0-9]+)):[ \t]*
RE_AFFILIATED ==
    ReCat(<<
        ReBol, ReStar(ReBlank), ReLit(<< HASH, PLUS >>),
        ReAny(<<
            ReSeq(ReAlt(ReGrp("CAPTION", ReLitI(<< 67, 65, 80, 84, 73, 79, 78 >>)),
                        ReGrp("RESULTS",
                              ReSeq(ReLitI(<< 82, 69, 83, 85, 76, 84 >>),
                                    ReOpt(ReLitI(<< 83 >>))))),
                  ReOpt(ReCat(<< ReSet({ 91 }),
                                 ReGrp("SECONDARY", ReStar(ReDot)),
                                 ReSet({ 93 }) >>))),
            ReGrp("HEADER", ReSeq(ReLitI(<< 72, 69, 65, 68, 69, 82 >>),
                                  ReOpt(ReLitI(<< 83 >>)))),
            ReGrp("PLOT", ReLitI(<< 80, 76, 79, 84 >>)),
            ReGrp("NAME",
                  ReAny(<<
                      ReLitI(<< 68, 65, 84, 65 >>),
                      ReLitI(<< 76, 65, 66, 69, 76 >>),
                      ReLitI(<< 78, 65, 77, 69 >>),
                      ReLitI(<< 82, 69, 83, 78, 65, 77, 69 >>),
                      ReSeq(ReAlt(ReSeq(ReLitI(<< 83 >>),
                                        ReAlt(ReLitI(<< 79, 85, 82, 67 >>),
                                              ReLitI(<< 82, 67, 78, 65, 77 >>))),
                                  ReLitI(<< 84, 66, 76, 78, 65, 77 >>)),
                            ReLitI(<< 69 >>)) >>)),
            ReGrp("ATTR",
                  ReSeq(ReLitI(<< 65, 84, 84, 82, 95 >>),
                        RePlus(ReSet(AlNum \cup { 45, 95 })))) >>),
        ReSet({ COLON }), ReStar(ReBlank) >>)

\* the capture names of REGEX_AFFILIATED without SECONDARY, in their order
AffiliatedNames == << "CAPTION", "RESULTS", "HEADER", "PLOT", "NAME", "ATTR" >>

-----------------------------------------------------------------------------
(* element/src/cursor.rs and affiliated.rs: the lookaheads of the parser's *)
(* cursor and the collector of affiliated keywords                         *)

\* the end of the text looking_at searches: the newline of the cursor's
\* line, or the end of the buffer
Cursor_lookahead_end(s, p) ==
    LET n == Line_next(s, p)
    IN  IF IsSome(n) THEN Unwrap(n) - 1 ELSE Len(s)

\* Cursor::looking_at / capturing_at of the element crate, for a pattern that
\* is not multiline: re.find / re.captures on data[pos..end]
Cursor_looking_at(s, p, re) == Regex_find(re, Slice(s, p, Cursor_lookahead_end(s, p)))
Cursor_capturing_at(s, p, re) ==
    Regex_captures(re, Slice(s, p, Cursor_lookahead_end(s, p)))

\* a test that takes every offset for the beginning of a line
Cursor_is_bol_anywhere(s, p) == TRUE

\* Cursor::is_bol of the element crate
Cursor_is_bol(s, p) == IF p = 0 THEN TRUE ELSE Line_is_boundary(s, p)

\* Cursor::line_end_position(None) of the element crate: mnext::<LinesMetric>,
\* which leaves the cursor where it is when no newline follows, then
\* mprev::<CharMetric>().unwrap_or(0)
Cursor_line_end_position(s, p) ==
    UnwrapOr(Char_prev(s, UnwrapOr(Line_next(s, p), p)), 0)

\* Cursor::goto_line_begin of the element crate
Cursor_goto_line_begin(s, p) ==
    IF p = 0 THEN 0
    ELSE IF Line_is_boundary(s, p) THEN p
    ELSE UnwrapOr(Line_prev(s, p), 0)

\* goto_next_line: the first byte of the next line
goto_next_line(s, p) == UnwrapOr(Line_next(s, p), Len(s))

\* str::trim, on the whitespace the buffers hold
RECURSIVE trim_start(_)
trim_start(t) == IF Len(t) > 0 /\ Head(t) \in ReWhite THEN trim_start(Tail(t)) ELSE t
RECURSIVE trim_end(_)
trim_end(t) ==
    IF Len(t) > 0 /\ t[Len(t)] \in ReWhite THEN trim_end(SubSeq(t, 1, Len(t) - 1)) ELSE t
trim(t) == trim_end(trim_start(t))

\* to_ascii_uppercase
to_ascii_uppercase(t) == [n \in 1..Len(t) |-> IF t[n] \in 97..122 THEN t[n] - 32 ELSE t[n]]

\* AffiliatedData::default()
AffiliatedData_default ==
    [caption |-> << >>, header |-> << >>, name |-> None, plot |-> None,
     results |-> None, attr |-> << >>]

\* the first capture group, SECONDARY aside, that took part in the match
RECURSIVE first_matched(_, _)
first_matched(cap, names) ==
    IF IsSome(Captures_name(cap, Head(names))) THEN Head(names)
    ELSE first_matched(cap, Tail(names))

\* the record after the keyword `key` with its value and secondary value
affiliated_push(output, key, value, secondary, backend) ==
    CASE key = "CAPTION" ->
            [output EXCEPT !.caption =
                Append(@, [value |-> value, secondary |-> secondary])]
      [] key = "RESULTS" ->
            [output EXCEPT !.results = Some([value |-> value, secondary |-> secondary])]
      [] key = "NAME" -> [output EXCEPT !.name = Some(value)]
      [] key = "PLOT" -> [output EXCEPT !.plot = Some(value)]
      [] key = "HEADER" -> [output EXCEPT !.header = Append(@, value)]
      [] key = "ATTR" -> [output EXCEPT !.attr = Append(@, << backend, value >>)]

\* input[value_begin..value_end] is out of range or splits a codepoint
str_slice_panics(s, begin, end) ==
    \/ begin > end
    \/ end > Len(s)
    \/ ~is_char_boundary(s, begin)
    \/ ~is_char_boundary(s, end)

\* the loop of collect_affiliated_keywords with the cursor at cur
RECURSIVE cak_loop(_, _, _, _, _)
cak_loop(s, cur, limit, origin, output) ==
    LET maybe_affiliated == Cursor_capturing_at(s, cur, RE_AFFILIATED)
    IN  IF cur >= limit \/ IsNone(maybe_affiliated)
        THEN \* orphaned keywords: back to the first one
             IF IsSome(Cursor_looking_at(s, cur, RE_EMPTY_LINE))
             THEN R(origin, << origin, None >>)
             ELSE R(cur, << origin, Some(output) >>)
        ELSE LET captures == Unwrap(maybe_affiliated)
                 key == first_matched(captures, AffiliatedNames)
                 matched == Unwrap(Captures_name(captures, key))
                 sec == Captures_name(captures, "SECONDARY")
                 value_begin == IF IsNone(sec) THEN cur + matched.end + 1
                                ELSE cur + Unwrap(sec).end + 2
                 value_end == Cursor_line_end_position(s, cur)
                 value == trim(Slice(s, value_begin, value_end))
                 secondary ==
                     IF IsNone(sec) THEN None
                     ELSE Some(trim(Slice(s, cur + Unwrap(sec).start,
                                          cur + Unwrap(sec).end)))
                 backend ==
                     to_ascii_uppercase(Slice(s, cur + matched.start, cur + matched.end))
             IN  IF str_slice_panics(s, value_begin, value_end) THEN Panic(cur)
                 ELSE cak_loop(s, goto_next_line(s, cur), limit, origin,
                               affiliated_push(output, key, value, secondary, backend))

collect_affiliated_keywords(s, p, limit) ==
    IF ~Cursor_is_bol(s, p) THEN R(p, << p, None >>)
    ELSE cak_loop(s, p, limit, p, AffiliatedData_default)

-----------------------------------------------------------------------------
(* parser.rs: the classification cascade of current_element.  The leaf     *)
(* parsers it ends in are unimplemented!(), so the result is the call it   *)
(* makes: the parser, the cursor offset at the call and the start of the   *)
(* affiliated keywords handed over.                                        *)

\* REGEX_PLANNING_LINE  ^[ \t]*((?:CLOSED|DEADLINE|SCHEDULED):)
RE_PLANNING_LINE ==
    ReCat(<< ReBol, ReStar(ReBlank),
             ReAny(<< ReLit(<< 67, 76, 79, 83, 69, 68 >>),
                      ReLit(<< 68, 69, 65, 68, 76, 73, 78, 69 >>),
                      ReLit(<< 83, 67, 72, 69, 68, 85, 76, 69, 68 >>) >>),
             ReSet({ COLON }) >>)

\* REGEX_PROPERTY_DRAWER
\* (?i)^[ \t]*:PROPERTIES:[ \t]*\n(?:[ \t]*:\S+:(?: .*)?[ \t]*\n)*?[ \t]*:END:[ \t]*
RE_PROPERTY_DRAWER ==
    ReCat(<< ReBol, ReStar(ReBlank),
             ReLitI(<< COLON, 80, 82, 79, 80, 69, 82, 84, 73, 69, 83, COLON >>),
             ReStar(ReBlank), ReSet({ NL }),
             ReLazy(ReCat(<< ReStar(ReBlank), ReSet({ COLON }), RePlus(ReNonSpace),
                             ReSet({ COLON }),
                             ReOpt(ReSeq(ReSet({ SP }), ReStar(ReDot))),
                             ReStar(ReBlank), ReSet({ NL }) >>)),
             ReStar(ReBlank), ReLitI(<< COLON, 69, 78, 68, COLON >>),
             ReStar(ReBlank) >>)

\* REGEX_CLOCK_LINE  (?i)^[ \t]*CLOCK:
RE_CLOCK_LINE ==
    ReCat(<< ReBol, ReStar(ReBlank), ReLitI(<< 67, 76, 79, 67, 75, COLON >>) >>)

\* REGEX_LATEX_BEGIN_ENVIRIONMENT  ^[ \t]*\\begin{([A-Za-z0-9*]+)}
RE_LATEX_BEGIN_ENVIRIONMENT ==
    ReCat(<< ReBol, ReStar(ReBlank), ReLit(<< 92, 98, 101, 103, 105, 110, 123 >>),
             ReGrp("1", RePlus(ReSet(AlNum \cup { STAR }))), ReSet({ 125 }) >>)

\* REGEX_DRAWER  ^[ \t]*:((?:\w|[-_])+):[ \t]*$
RE_DRAWER ==
    ReCat(<< ReBol, ReStar(ReBlank), ReSet({ COLON }),
             ReGrp("1", RePlus(ReAlt(ReWord, ReSet({ 45, 95 })))),
             ReSet({ COLON }), ReStar(ReBlank), ReEol >>)

\* REGEX_FIXED_WIDTH  [ \t]*:( |$)
RE_FIXED_WIDTH ==
    ReCat(<< ReStar(ReBlank), ReSet({ COLON }), ReGrp("1", ReAlt(ReSet({ SP }), ReEol)) >>)

\* REGEX_STARTS_WITH_HASHTAG  [ \t]*#
RE_STARTS_WITH_HASHTAG == ReSeq(ReStar(ReBlank), ReSet({ HASH }))

\* REGEX_COLON_OR_EOL  (?: |$)
RE_COLON_OR_EOL == ReAlt(ReSet({ SP }), ReEol)

\* REGEX_BLOCK_BEGIN  \+BEGIN_(\S+)
RE_BLOCK_BEGIN ==
    ReSeq(ReLit(<< PLUS, 66, 69, 71, 73, 78, 95 >>), ReGrp("1", RePlus(ReNonSpace)))

\* REGEX_BABEL_CALL  \+CALL:
RE_BABEL_CALL == ReLit(<< PLUS, 67, 65, 76, 76, COLON >>)

\* REGEX_DYNAMIC_BLOCK  \+BEGIN:?<space>
RE_DYNAMIC_BLOCK ==
    ReCat(<< ReLit(<< PLUS, 66, 69, 71, 73, 78 >>), ReOpt(ReSet({ COLON })),
             ReSet({ SP }) >>)

\* REGEX_KEYWORD  \+\S+:
RE_KEYWORD == ReCat(<< ReSet({ PLUS }), RePlus(ReNonSpace), ReSet({ COLON }) >>)

\* REGEX_FOOTNOTE_DEFINITION  ^\[fn:([-_[:word:]]+)\]
RE_FOOTNOTE_DEFINITION ==
    ReCat(<< ReBol, ReLit(<< 91, 102, 110, COLON >>),
             ReGrp("1", RePlus(ReAlt(ReWord, ReSet({ 45, 95 })))), ReSet({ 93 }) >>)

\* REGEX_HORIZONTAL_RULE  [ \t]*-{5,}[ \t]*$
RE_HORIZONTAL_RULE ==
    ReCat(<< ReStar(ReBlank), ReLit(<< 45, 45, 45, 45, 45 >>), ReStar(ReSet({ 45 })),
             ReStar(ReBlank), ReEol >>)

\* REGEX_DIARY_SEXP  %%\(
RE_DIARY_SEXP == ReLit(<< 37, 37, 40 >>)

\* REGEX_TABLE_BORDER  [ \t]*\|
RE_TABLE_BORDER == ReSeq(ReStar(ReBlank), ReSet({ BAR }))

\* REGEX_ITEM  ([ \t]*([-+]|(([0-9]+)[.)]))|[ \t]+\*)([ \t]|$)
RE_ITEM ==
    ReSeq(ReAlt(ReSeq(ReStar(ReBlank),
                      ReAlt(ReSet({ 45, PLUS }),
                            ReSeq(RePlus(ReSet(48..57)), ReSet({ 46, 41 })))),
                ReSeq(RePlus(ReBlank), ReSet({ STAR }))),
          ReAlt(ReBlank, ReEol))

\* is_multiline_regex, for the patterns above: the text of the pattern
\* holds \n, which only that of REGEX_PROPERTY_DRAWER does
Re_is_multiline(re) == re = RE_PROPERTY_DRAWER

\* Cursor::looking_at of the element crate, multiline patterns included
Parser_looking_at(s, p, re) ==
    IF Re_is_multiline(re) THEN Regex_find(re, Slice(s, p, Len(s)))
    ELSE Cursor_looking_at(s, p, re)

\* Cursor::char_after of the element crate: get_lnext::<CharLexeme> from offset
Cursor_char_after(s, offset) ==
    LET item == CharLexeme_get_next(s, offset)
    IN  IF IsSome(item) THEN Some(Unwrap(item).value) ELSE None

\* the call current_element ends in
Dispatch(parser, stage, at, aff_start, affiliated) ==
    [parser |-> parser, stage |-> stage, at |-> at, aff_start |-> aff_start,
     affiliated |-> affiliated]

\* the block parser for the upper-cased name of #+BEGIN_<name>
block_parser(name) ==
    CASE name = << 67, 69, 78, 84, 69, 82 >> -> "center_block_parser"
      [] name = << 67, 79, 77, 77, 69, 78, 84 >> -> "comment_block_parser"
      [] name = << 69, 88, 65, 77, 80, 76, 69 >> -> "example_block_parser"
      [] name = << 69, 88, 80, 79, 82, 84 >> -> "export_block_parser"
      [] name = << 81, 85, 79, 84, 69 >> -> "quote_block_parser"
      [] name = << 83, 82, 67 >> -> "src_block_parser"
      [] name = << 86, 69, 82, 83, 69 >> -> "verse_block_parser"
      [] OTHER -> "special_block_parser"

\* self.cursor.borrow_mut().set(m.end()): the end of the match, an offset
\* into the text that was searched, taken for an offset into the buffer
hashtag_end(c, m) == m.end

\* the tests of a stage, in the order of the code: a pattern for
\* looking_at!, and the parser called when it matches
Test(re, parser) == [re |-> re, parser |-> parser]

\* the first test of a stage that matches with the cursor at c
first_looking_at(s, c, tests) ==
    LET hits == SelectSeq(tests, LAMBDA x : IsSome(Parser_looking_at(s, c, x.re)))
    IN  IF Len(hits) = 0 THEN None ELSE Some(hits[1].parser)

\* the tests made after the cursor was moved past the #
hashtag_tests ==
    << Test(RE_COLON_OR_EOL, "comment_parser"),
       Test(RE_BLOCK_BEGIN, "block_parser"),
       Test(RE_BABEL_CALL, "babel_call_parser"),
       Test(RE_DYNAMIC_BLOCK, "dynamic_block_parser"),
       Test(RE_KEYWORD, "keyword_parser") >>

\* the name captured by REGEX_BLOCK_BEGIN with the cursor at h, upper-cased
block_name(s, h, group) == to_ascii_uppercase(Slice(s, h + group.start, h + group.end))

\* the parser the branch for # calls, `hit` being the first test that matched
hashtag_parser(s, h, hit) ==
    IF hit = None THEN "paragraph_parser"
    ELSE IF hit = Some("block_parser")
    THEN block_parser(block_name(s, h,
             Unwrap(Captures_name(Unwrap(Cursor_capturing_at(s, h, RE_BLOCK_BEGIN)), "1"))))
    ELSE Unwrap(hit)

\* the branch for lines that hold a #, the cursor at c and then at h: every
\* way out goes through goto_line_begin
hashtag_branch(s, c, h, aff_start, aff) ==
    IF h > Len(s) \/ ~is_char_boundary(s, h) THEN Panic(c)
    ELSE R(c, Dispatch(hashtag_parser(s, h, first_looking_at(s, h, hashtag_tests)),
                       "hashtag", Cursor_goto_line_begin(s, h), aff_start, aff))

\* the tests for the elements that can have affiliated keywords
affiliated_tests ==
    << Test(RE_LATEX_BEGIN_ENVIRIONMENT, "latex_environment_parser"),
       Test(RE_DRAWER, "drawer_parser"),
       Test(RE_FIXED_WIDTH, "fixed_width_parser"),
       Test(RE_STARTS_WITH_HASHTAG, "hashtag"),
       Test(RE_FOOTNOTE_DEFINITION, "footnote_definition_parser"),
       Test(RE_HORIZONTAL_RULE, "horizontal_rule_parser"),
       Test(RE_DIARY_SEXP, "diary_sexp_parser"),
       Test(RE_TABLE_BORDER, "table_parser"),
       Test(RE_ITEM, "plain_list_parser") >>

\* the elements that can have affiliated keywords, `hit` being the first
\* test that matched
affiliated_dispatch(s, c, hit, aff_start, aff) ==
    IF hit = Some("hashtag")
    THEN hashtag_branch(s, c,
             hashtag_end(c, Unwrap(Parser_looking_at(s, c, RE_STARTS_WITH_HASHTAG))),
             aff_start, aff)
    ELSE R(c, Dispatch(UnwrapOr(hit, "paragraph_parser"), "affiliated", c, aff_start, aff))

\* the stage after the collector of affiliated keywords, which returned
\* (aff_start, aff) and left the cursor at c
affiliated_stage(s, limit, collected) ==
    IF collected.failed THEN collected
    ELSE IF IsSome(collected.ret[2]) /\ collected.pos >= limit
    THEN R(collected.pos,
           Dispatch("keyword_parser", "affiliated", collected.ret[1], collected.ret[1], None))
    ELSE affiliated_dispatch(s, collected.pos,
                             first_looking_at(s, collected.pos, affiliated_tests),
                             collected.ret[1], collected.ret[2])

\* the tests of the stage for planning lines and property drawers: the mode,
\* the number of lines up to the headline, the pattern and the parser
headline_tests ==
    << [mode |-> "Planning", delta |-> 0, re |-> RE_PLANNING_LINE,
        parser |-> "planning_parser"],
       [mode |-> "Planning", delta |-> 0, re |-> RE_PROPERTY_DRAWER,
        parser |-> "property_drawer_parser"],
       [mode |-> "PropertyDrawer", delta |-> -1, re |-> RE_PROPERTY_DRAWER,
        parser |-> "property_drawer_parser"] >>

\* the char after the start of the line `delta` lines up is a star
is_prev_line_headline(s, p, delta) ==
    Cursor_char_after(s, line_beginning_position(s, p, Some(delta)).ret) = Some(STAR)

\* the first test for a planning line or a property drawer that matches
first_headline_test(s, p, mode) ==
    LET hits == SelectSeq(headline_tests,
                    LAMBDA x : /\ x.mode = mode
                               /\ is_prev_line_headline(s, p, x.delta)
                               /\ IsSome(Parser_looking_at(s, p, x.re)))
    IN  IF Len(hits) = 0 THEN None ELSE Some(hits[1].parser)

\* the tests before the affiliated keywords are collected
early_tests == << Test(RE_CLOCK_LINE, "clock_line_parser") >>

\* a parser called with the cursor where current_element was entered
at_entry(p, parser) == R(p, Dispatch(parser, "mode", p, p, None))

\* the stages from the clock line on, `hit` being the outcome of its test;
\* the test on_headline() for an inline task that follows was made before,
\* with the cursor at the same offset, and cannot succeed here
clock_stage(s, p, limit, hit) ==
    IF IsSome(hit) THEN at_entry(p, Unwrap(hit))
    ELSE affiliated_stage(s, limit, collect_affiliated_keywords(s, p, limit))

\* the stages from the planning line on, `hit` being the outcome of the
\* tests for a planning line and a property drawer
planning_stage(s, p, limit, hit) ==
    IF IsSome(hit) THEN at_entry(p, Unwrap(hit))
    ELSE IF ~Cursor_is_bol(s, p) THEN at_entry(p, "paragraph_parser")
    ELSE clock_stage(s, p, limit, first_looking_at(s, p, early_tests))

\* get_current_element: the call the cascade ends in, and the cursor then
get_current_element(s, p, limit, mode) ==
    IF mode = "Item" THEN at_entry(p, "item_parser")
    ELSE IF mode = "TableRow" THEN at_entry(p, "table_row_parser")
    ELSE IF mode = "NodeProperty" THEN at_entry(p, "node_property_parser")
    ELSE IF on_headline(s, p) THEN at_entry(p, "headline_parser")
    ELSE IF mode \in { "Section", "FirstSection" } THEN at_entry(p, "section_parser")
    ELSE planning_stage(s, p, limit, first_headline_test(s, p, mode))

\* self.cursor.borrow_mut().set(pos) after get_current_element()
restored(p, e) == IF e.failed THEN e ELSE R(p, e.ret)

\* current_element: get_current_element, then the cursor is set back to
\* where it was at entry
current_element_call(s, p, limit, mode) ==
    restored(p, get_current_element(s, p, limit, mode))

-----------------------------------------------------------------------------
(* parser.rs: parse_elements as the steps of its loop.  A call is a frame: *)
(* the cursor offset saved at entry, the interval, the mode, the elements  *)
(* pushed so far and the offsets they were classified at; a recursive call *)
(* is a frame on top of the caller's, the caller's element pending.        *)

Frame(saved, beg, end, mode) ==
    [saved |-> saved, beg |-> beg, end |-> end, mode |-> mode, elements |-> << >>,
     at |-> << >>, pending |-> None, next |-> mode]

\* a loop that starts at the next headline under every granularity
loop_begin_at_headline(s, g, beg) ==
    IF ~on_headline(s, beg) THEN next_headline(s, beg).pos ELSE beg

\* the cursor when the loop starts: set(beg), and under granularity Headline
\* next_headline() when beg is not on a headline
loop_begin(s, g, beg) ==
    IF g = "Headline" /\ ~on_headline(s, beg) THEN next_headline(s, beg).pos ELSE beg

\* a loop that goes on from where the element starts
loop_cursor_at_start(element) == element.location.start

\* self.cursor.borrow_mut().set(element.location.end)
loop_cursor(element) == element.location.end

\* a return that leaves the cursor where the loop ended
loop_return_in_place(p, frame) == p

\* self.cursor.borrow_mut().set(pos) before parse_elements returns
loop_return(p, frame) == frame.saved

\* the call parse_elements(beg, end, mode, ..) made with the cursor at p
loop_call(s, g, p, stack, beg, end, mode) ==
    R(loop_begin(s, g, beg),
      [stack |-> Append(stack, Frame(p, beg, end, mode)), returned |-> None])

\* the frame on top
Top(stack) == stack[Len(stack)]

\* the stack with the frame on top replaced
WithTop(stack, frame) == [stack EXCEPT ![Len(stack)] = frame]

\* the mode the loop goes on with after element
sibling_mode(element, mode) == UnwrapOr(next_mode(element.data, FALSE), mode)

\* the rest of a round, current_element having returned element at p: the
\* cursor is set to its end, and its contents are parsed by a recursive
\* call or the element is pushed
loop_element(s, g, p, stack, element) ==
    IF element.data = "unimplemented" THEN Panic(p)
    ELSE IF recurses(g, element)
    THEN loop_call(s, g, loop_cursor(element),
                   WithTop(stack, [Top(stack) EXCEPT
                                      !.at = Append(@, p),
                                      !.pending = Some(element),
                                      !.next = sibling_mode(element, Top(stack).mode)]),
                   Unwrap(element.content_location).start,
                   Unwrap(element.content_location).end,
                   UnwrapOr(next_mode(element.data, TRUE), Top(stack).mode))
    ELSE R(loop_cursor(element),
           [stack |-> WithTop(stack, [Top(stack) EXCEPT
                                         !.at = Append(@, p),
                                         !.elements = Append(@, element),
                                         !.mode = sibling_mode(element, @)]),
            returned |-> None])

\* one round of the loop of the frame on top, the cursor at p
loop_round(s, g, p, stack) ==
    loop_element(s, g, p, stack,
                 current_element(s, p, Top(stack).end, Top(stack).mode))

\* the frame of the caller once the call for its pending element returned
loop_resume(frame, children) ==
    [frame EXCEPT !.elements = Append(@, [Unwrap(frame.pending) EXCEPT
                                             !.children = children]),
                  !.mode = frame.next,
                  !.pending = None]

\* the stack once the frame on top returned
loop_pop(stack, n) ==
    IF n = 1 THEN << >>
    ELSE [i \in 1..(n - 1) |->
            IF i = n - 1 THEN loop_resume(stack[i], stack[n].elements) ELSE stack[i]]

\* the return of the frame on top, its loop having reached its end at p
loop_exit(p, stack) ==
    R(loop_return(p, Top(stack)),
      [stack |-> loop_pop(stack, Len(stack)),
       returned |-> Some([frame |-> Top(stack), left_at |-> p])])

-----------------------------------------------------------------------------
(* The state machine: a cursor over a buffer, one action per operation *)

\* the offsets a cursor can be at: the char boundaries of the buffer
Positions(s) == { o \in 0..Len(s) : is_char_boundary(s, o) }

\* the Option<i32> arguments of line_beginning_position / line_end_position
Ns == { None } \cup { Some(x) : x \in (0 - MaxN)..MaxN }

\* the char sets given to skip_chars_forward / skip_chars_backward
Charsets == { { SP }, { CH_A }, { STAR, SP, CH_A, LEAD } }

Limits(s) == { None } \cup { Some(l) : l \in 0..Len(s) }

Granularities == { "Headline" }

\* the value v of the operation `name`: values of different operations are
\* of different types and are kept apart by the name
Val(name, v) == [f \in { name } |-> v]

\* Cursor::new(data, pos)
Init ==
    /\ data \in Buffers
    /\ pos \in Positions(data)
    /\ op = "new"
    /\ arg = Val("new", << >>)
    /\ ret = Val("new", None)
    /\ old = pos
    /\ failed = FALSE
    /\ granularity \in Granularities

\* the cursor operation `name` with arguments a ended as r
Apply(name, a, r) ==
    /\ ~failed
    /\ op' = name
    /\ arg' = Val(name, a)
    /\ old' = pos
    /\ pos' = r.pos
    /\ ret' = IF r.failed THEN Val("panic", TRUE) ELSE Val(name, r.ret)
    /\ failed' = r.failed
    /\ UNCHANGED << data, granularity >>

Set(p) == Apply("set", << p >>, R(p, None))

MNext(M) == Apply("mnext", << M >>, mnext(M, data, pos))
MPrev(M) == Apply("mprev", << M >>, mprev(M, data, pos))
AtOrMNext(M) == Apply("at_or_mnext", << M >>, at_or_mnext(M, data, pos))
AtOrMPrev(M) == Apply("at_or_mprev", << M >>, at_or_mprev(M, data, pos))
LPrev(L) == Apply("lprev", << L >>, lprev(L, data, pos))
LNext(L) == Apply("lnext", << L >>, lnext(L, data, pos))

GetLPrev(L) ==
    Apply("get_lprev", << L >>,
          CASE L = "Char" -> get_lprev_Char(data, pos)
            [] L = "Line" -> get_lprev_Line(data, pos))

GetLNext(L) ==
    Apply("get_lnext", << L >>,
          CASE L = "Char" -> get_lnext_Char(data, pos)
            [] L = "Line" -> get_lnext_Line(data, pos))

CharAfter(offset) == Apply("char_after", << offset >>, char_after(data, pos, offset))
SkipWhitespace == Apply("skip_whitespace", << >>, skip_whitespace(data, pos))
LookingAt(re) == Apply("looking_at", << re >>, looking_at(data, pos, re))
CapturingAt(re) == Apply("capturing_at", << re >>, capturing_at(data, pos, re))
GotoLineBegin == Apply("goto_line_begin", << >>, goto_line_begin(data, pos))
LineBeginningPosition(n) ==
    Apply("line_beginning_position", << n >>, line_beginning_position(data, pos, n))
LineEndPosition(n) ==
    Apply("line_end_position", << n >>, line_end_position(data, pos, n))
SkipCharsForward(str, limit) ==
    Apply("skip_chars_forward", << str, limit >>, skip_chars_forward(data, pos, str, limit))
SkipCharsBackward(str, limit) ==
    Apply("skip_chars_backward", << str, limit >>, skip_chars_backward(data, pos, str, limit))

\* HeadlineMetric::next(data, offset), the cursor untouched
HeadlineMetricNext(offset) ==
    Apply("HeadlineMetric::next", << offset >>,
          IF Headline_next_panics(data, offset) THEN Panic(pos)
          ELSE R(pos, Headline_next(data, offset)))

\* Line::prev(data, offset), the cursor untouched
LinePrev(offset) ==
    Apply("Line::prev", << offset >>,
          IF Line_prev_panics(data, offset) THEN Panic(pos)
          ELSE R(pos, Line_prev(data, offset)))

\* the classification predicates of SyntaxT, the cursor untouched
IsGreaterElement(syntax) ==
    Apply("is_greater_element", << syntax >>, R(pos, is_greater_element(syntax)))

IsElement(syntax) ==
    Apply("is_element", << syntax >>, R(pos, is_element(syntax)))

IsObject(syntax) ==
    Apply("is_object", << syntax >>, R(pos, is_object(syntax)))

IsRecursiveObject(syntax) ==
    Apply("is_recursive_object", << syntax >>, R(pos, is_recursive_object(syntax)))

IsObjectContainer(syntax) ==
    Apply("is_object_container", << syntax >>, R(pos, is_object_container(syntax)))

IsContainer(syntax) ==
    Apply("is_container", << syntax >>, R(pos, is_container(syntax)))

CanContain(self, that) ==
    Apply("can_contain", << self, that >>, R(pos, can_contain(self, that)))

\* Parser::parse_buffer
ParseBuffer == Apply("parse_buffer", << >>, parse_buffer(data, granularity))

Next ==
    \/ \E p \in Positions(data) : Set(p)
    \/ \E M \in Metrics : MNext(M)
    \/ \E M \in Metrics : MPrev(M)
    \/ \E M \in Metrics : AtOrMNext(M)
    \/ \E M \in Metrics : AtOrMPrev(M)
    \/ \E L \in Lexemes : LPrev(L)
    \/ \E L \in Lexemes : LNext(L)
    \/ \E L \in Lexemes : GetLPrev(L)
    \/ \E L \in Lexemes : GetLNext(L)
    \/ \E offset \in 0..Len(data) : CharAfter(offset)
    \/ SkipWhitespace
    \/ \E re \in Regexes : LookingAt(re)
    \/ \E re \in Regexes : CapturingAt(re)
    \/ GotoLineBegin
    \/ \E n \in Ns : LineBeginningPosition(n)
    \/ \E n \in Ns : LineEndPosition(n)
    \/ \E str \in Charsets, limit \in Limits(data) : SkipCharsForward(str, limit)
    \/ \E str \in Charsets, limit \in Limits(data) : SkipCharsBackward(str, limit)
    \/ \E offset \in Positions(data) : HeadlineMetricNext(offset)
    \/ \E offset \in Positions(data) : LinePrev(offset)
    \/ ParseBuffer

Spec == Init /\ [][Next]_vars

\* The character-level moves, in any order, from every buffer and every
\* cursor offset on a codepoint boundary.
NextChar ==
    \/ MNext("Char")
    \/ MPrev("Char")
    \/ GetLNext("Char")
    \/ GetLPrev("Char")
    \/ LNext("Char")
    \/ LPrev("Char")
    \/ \E str \in Charsets, limit \in Limits(data) : SkipCharsForward(str, limit)
    \/ \E str \in Charsets, limit \in Limits(data) : SkipCharsBackward(str, limit)
    \/ SkipWhitespace

SpecChar == Init /\ [][NextChar]_vars

\* M::next(data, offset) and M::prev(data, offset), the cursor untouched
MetricNextAt(M, offset) ==
    Apply("Metric::next", << M, offset >>,
          IF Metric_next_panics(M, data, offset) THEN Panic(pos)
          ELSE R(pos, Metric_next(M, data, offset)))

MetricPrevAt(M, offset) ==
    Apply("Metric::prev", << M, offset >>,
          IF Metric_prev_panics(M, data, offset) THEN Panic(pos)
          ELSE R(pos, Metric_prev(M, data, offset)))

\* The metrics as pure functions, explored over every buffer and offset.
NextMetric ==
    \/ \E M \in Metrics, offset \in 0..Len(data) : MetricNextAt(M, offset)
    \/ \E M \in Metrics, offset \in 0..Len(data) : MetricPrevAt(M, offset)

SpecMetric == Init /\ [][NextMetric]_vars

\* the literal strings given to search_forward
Needles == { << SP >>, << CH_A >>, << CH_A, CH_A >>, << LEAD, CONT >> }

\* the bound: Option<usize> of search_forward, one value beyond the buffer
SearchBounds(s) == Limits(s) \cup { Some(Len(s) + 1) }

\* the count: Option<usize> of search_forward
Counts == { None } \cup { Some(c) : c \in 0..MaxN }

SearchForward(str, bound, count) ==
    Apply("search_forward", << str, bound, count >>,
          search_forward(data, pos, str, bound, count))

ReSearchForward(re, bound) ==
    Apply("re_search_forward", << re, bound >>,
          IF re_search_forward_panics(data, pos, bound) THEN Panic(pos)
          ELSE re_search_forward(data, pos, re, bound))

\* The bounded searches, explored from every buffer and cursor offset.
NextSearch ==
    \/ \E p \in Positions(data) : Set(p)
    \/ \E str \in Needles, bound \in SearchBounds(data), count \in Counts :
            SearchForward(str, bound, count)
    \/ \E re \in Regexes, bound \in Limits(data) : ReSearchForward(re, bound)

SpecSearch == Init /\ [][NextSearch]_vars

\* Buffers of whole lines for the collector of affiliated keywords: up to
\* MaxLines lines of AffiliatedLines, the last with or without its newline
\* (so the buffer can end in an empty line).
MaxLines == 3

\* " ", "a", "#+NAME:a", "#+CAPTION[a]:b", " #+PLOT:"
AffiliatedLines ==
    { << SP >>, << CH_A >>,
      << HASH, PLUS, 78, 65, 77, 69, COLON, CH_A >>,
      << HASH, PLUS, 67, 65, 80, 84, 73, 79, 78, 91, CH_A, 93, COLON, 98 >>,
      << SP, HASH, PLUS, 80, 76, 79, 84, COLON >> }

RECURSIVE JoinLines(_)
JoinLines(ls) ==
    IF Len(ls) = 0 THEN << >>
    ELSE IF Len(ls) = 1 THEN ls[1]
    ELSE ls[1] \o << NL >> \o JoinLines(Tail(ls))

Documents(lines) ==
    { JoinLines(ls) \o tail :
        ls \in SeqsUpTo(lines, MaxLines), tail \in { << >>, << NL >> } }

\* the offsets the parser's cursor and its limits are drawn from: the
\* beginning of each line, the offset after it, and the end of the buffer
LineOffsets(s) ==
    { q \in Positions(s) :
        \/ q = Len(s)
        \/ Cursor_is_bol(s, q)
        \/ (q > 0 /\ Cursor_is_bol(s, q - 1)) }

InitAffiliated ==
    /\ data \in Documents(AffiliatedLines)
    /\ pos \in LineOffsets(data)
    /\ op = "new"
    /\ arg = Val("new", << >>)
    /\ ret = Val("new", None)
    /\ old = pos
    /\ failed = FALSE
    /\ granularity \in Granularities

CollectAffiliatedKeywords(limit) ==
    Apply("collect_affiliated_keywords", << limit >>,
          collect_affiliated_keywords(data, pos, limit))

NextAffiliated == \E limit \in LineOffsets(data) : CollectAffiliatedKeywords(limit)

SpecAffiliated == InitAffiliated /\ [][NextAffiliated]_vars

\* "# c", "#", "#+BEGIN_SRC", "#+CALL:x", "#+BEGIN x", "#+K:x", "#+x", "a",
\* "#+NAME:a", "* h"
ElementLines ==
    { << HASH, SP, 99 >>, << HASH >>,
      << HASH, PLUS, 66, 69, 71, 73, 78, 95, 83, 82, 67 >>,
      << HASH, PLUS, 67, 65, 76, 76, COLON, 120 >>,
      << HASH, PLUS, 66, 69, 71, 73, 78, SP, 120 >>,
      << HASH, PLUS, 75, COLON, 120 >>,
      << HASH, PLUS, 120 >>,
      << CH_A >>,
      << HASH, PLUS, 78, 65, 77, 69, COLON, CH_A >>,
      << STAR, SP, 104 >> }

MaxElementLines == 2

ElementDocuments ==
    { JoinLines(ls) \o tail :
        ls \in SeqsUpTo(ElementLines, MaxElementLines), tail \in { << >>, << NL >> } }

InitElement ==
    /\ data \in ElementDocuments
    /\ pos \in LineOffsets(data)
    /\ op = "new"
    /\ arg = Val("new", << >>)
    /\ ret = Val("new", None)
    /\ old = pos
    /\ failed = FALSE
    /\ granularity \in Granularities

CurrentElement(limit, mode) ==
    Apply("current_element", << limit, mode >>,
          current_element_call(data, pos, limit, mode))

\* parse_elements calls current_element(end, mode, ..) while pos < end
NextElement ==
    \E limit \in { l \in LineOffsets(data) : pos < l }, mode \in ParserModes :
        CurrentElement(limit, mode)

SpecElement == InitElement /\ [][NextElement]_vars

\* The classification of syntax kinds does not read the buffer: it is
\* explored over every kind with the cursor on the empty buffer.
InitSyntax ==
    /\ data = << >>
    /\ pos = 0
    /\ op = "new"
    /\ arg = Val("new", << >>)
    /\ ret = Val("new", None)
    /\ old = pos
    /\ failed = FALSE
    /\ granularity \in Granularities

NextSyntax ==
    \/ \E syntax \in SyntaxT : IsGreaterElement(syntax)
    \/ \E syntax \in SyntaxT : IsElement(syntax)
    \/ \E syntax \in SyntaxT : IsObject(syntax)
    \/ \E syntax \in SyntaxT : IsRecursiveObject(syntax)
    \/ \E syntax \in SyntaxT : IsObjectContainer(syntax)
    \/ \E syntax \in SyntaxT : IsContainer(syntax)
    \/ \E self \in SyntaxT, that \in SyntaxT : CanContain(self, that)

SpecSyntax == InitSyntax /\ [][NextSyntax]_vars

\* The descent into an element's contents is explored over every kind of
\* node, with and without contents, under each granularity.
ParseGranularity == { "Headline", "GreaterElement", "Element", "Object" }

ContentLocations == { None, Some(Interval(1, 2)) }

Elements ==
    { SyntaxNode(syntax, Interval(0, 2), c) :
        syntax \in SyntaxT, c \in ContentLocations }

InitContent ==
    /\ data = << >>
    /\ pos = 0
    /\ op = "new"
    /\ arg = Val("new", << >>)
    /\ ret = Val("new", None)
    /\ old = pos
    /\ failed = FALSE
    /\ granularity \in ParseGranularity

\* one round of the loop of parse_elements after current_element returned
\* element; parse_objects, when it is called, is unimplemented!()
ParseElementsContent(element, mode) ==
    /\ ~failed
    /\ op' = "parse_elements"
    /\ arg' = Val("parse_elements", << element, mode >>)
    /\ ret' = Val("parse_elements", parse_elements_content(granularity, element, mode))
    /\ failed' = (parse_elements_content(granularity, element, mode).call = "parse_objects")
    /\ old' = pos
    /\ pos' = element.location.end
    /\ UNCHANGED << data, granularity >>

NextMode(syntax, is_parent) ==
    Apply("next_mode", << syntax, is_parent >>, R(pos, next_mode(syntax, is_parent)))

NextContent ==
    \/ \E element \in Elements, mode \in { "FirstSection", "Planning", "NodeProperty" } :
          ParseElementsContent(element, mode)
    \/ \E syntax \in SyntaxT, is_parent \in BOOLEAN : NextMode(syntax, is_parent)

SpecContent == InitContent /\ [][NextContent]_vars

\* "* h", "** h", "#"
ParseLines == { << STAR, SP, 104 >>, << STAR, STAR, SP, 104 >>, << HASH >> }

ParseDocuments == Documents(ParseLines)

LoopOps == { "parse_elements", "parse_elements_round", "parse_elements_return" }

InitParse ==
    /\ data \in ParseDocuments
    /\ pos \in { 0, Len(data) }
    /\ op = "new"
    /\ arg = Val("new", << >>)
    /\ ret = Val("new", None)
    /\ old = pos
    /\ failed = FALSE
    /\ granularity \in ParseGranularity

\* parse_elements(beg, end, mode, None) is called
ParseElementsCall(beg, end, mode) ==
    /\ op = "new"
    /\ Apply("parse_elements", << beg, end, mode >>,
             loop_call(data, granularity, pos, << >>, beg, end, mode))

\* the loop of the innermost call goes round once
ParseElementsRound ==
    /\ op \in LoopOps
    /\ ~failed
    /\ ret[op].stack # << >>
    /\ pos < Top(ret[op].stack).end
    /\ Apply("parse_elements_round", arg[op],
             loop_round(data, granularity, pos, ret[op].stack))

\* the loop of the innermost call breaks and the call returns
ParseElementsReturn ==
    /\ op \in LoopOps
    /\ ~failed
    /\ ret[op].stack # << >>
    /\ pos >= Top(ret[op].stack).end
    /\ Apply("parse_elements_return", arg[op], loop_exit(pos, ret[op].stack))

\* current_element(limit, mode, None) is called on its own
CurrentElementCall(limit, mode) ==
    /\ op \in { "new", "current_element" }
    /\ CurrentElement(limit, mode)

NextParse ==
    \/ \E beg \in { b \in LineOffsets(data) : Cursor_is_bol(data, b) },
          end \in LineOffsets(data), mode \in { "FirstSection", "Section" } :
            beg <= end /\ ParseElementsCall(beg, end, mode)
    \/ ParseElementsRound
    \/ ParseElementsReturn
    \/ \E limit \in { l \in LineOffsets(data) : pos < l },
          mode \in { "FirstSection", "Planning" } :
            CurrentElementCall(limit, mode)

SpecParse == InitParse /\ [][NextParse]_vars

\* a round of the loop can be made: the guard of ParseElementsRound
RoundEnabled ==
    /\ op \in LoopOps
    /\ ~failed
    /\ ret[op].stack # << >>
    /\ pos < Top(ret[op].stack).end

\* a round of the loop is made
RoundStep == RoundEnabled /\ op' = "parse_elements_round"

\* the code runs on: a return that can be made is made, and so is a round of
\* the loop (weak fairness of ParseElementsRound, its enabling condition
\* written out as RoundEnabled)
SpecParseFair ==
    /\ SpecParse
    /\ WF_vars(ParseElementsReturn)
    /\ ([]<>(~RoundEnabled) \/ []<><<RoundStep>>_vars)

-----------------------------------------------------------------------------
(* Claims *)

\* C1: looking_at(re) and capturing_at(re) are anchored: a match they return
\* begins exactly at the cursor offset, that is at offset 0 of the text
\* data[pos..end] they search; a pattern that occurs only later on the line
\* gives None.
C1_LookingAtAnchored ==
    (op \in { "looking_at", "capturing_at" } /\ ~failed /\ IsSome(ret[op]))
        => Unwrap(ret[op]).start = 0

\* C2: for M in {Char, Line} and every cursor offset, mnext::<M>() and
\* mprev::<M>() never fail and either return Some(p) with pos = p or return
\* None with pos unchanged; mprev::<Line>(), at_or_mprev::<Line>() and
\* lprev::<Line>() with the cursor at offset 0 return None with the cursor
\* still at 0.
C2_MetricMovesTotal ==
    /\ op \in { "mnext", "mprev" }
           => /\ ~failed
              /\ IF IsSome(ret[op]) THEN pos = Unwrap(ret[op]) ELSE pos = old
    /\ (op \in { "mprev", "at_or_mprev", "lprev" } /\ arg[op] = << "Line" >> /\ old = 0)
           => /\ ~failed
              /\ ret[op] = None
              /\ pos = 0

\* C4: skip_chars_forward(charset, Some(limit)) called with pos <= limit <= len
\* never leaves the cursor beyond limit: it stops before the first char that
\* is not in charset or at offset limit, whichever comes first.
C4_SkipCharsForwardWithinLimit ==
    (op = "skip_chars_forward" /\ IsSome(arg[op][2]) /\ old <= Unwrap(arg[op][2]) /\ ~failed)
        => /\ pos <= Unwrap(arg[op][2])
           /\ pos = Min(Unwrap(arg[op][2]), old + Run(data, old, arg[op][1]))

\* C5: HeadlineMetric::next(offset), when it returns Some(p), has p > offset,
\* p the first byte of a line (p = 0 or the byte at p - 1 is a newline), and
\* HeadlineMetric::is_boundary(p).
C5_HeadlineNextAdvances ==
    (op = "HeadlineMetric::next" /\ ~failed /\ IsSome(ret[op]))
        => /\ Unwrap(ret[op]) > arg[op][1]
           /\ (Unwrap(ret[op]) = 0 \/ At(data, Unwrap(ret[op]) - 1) = NL)
           /\ Headline_is_boundary(data, Unwrap(ret[op]))

\* The lines of a buffer, as the claims speak of them: a line starts at
\* offset 0 and after every newline.
LineStarts(s) == { q \in 0..Len(s) : q = 0 \/ At(s, q - 1) = NL }

\* the start of the line that contains offset p
LineStartOf(s, p) == CHOOSE q \in LineStarts(s) :
                        q <= p /\ \A r \in LineStarts(s) : r <= p => r <= q

\* the number of the line that starts at q, the first line being 1
LineNumber(s, q) == Cardinality({ r \in LineStarts(s) : r <= q })

\* the line line_end_position(n) selects from offset p: the cursor's line for
\* n = None or 1, n - 1 lines below for n > 1, 1 - n lines above for n <= 0
SelectedLine(s, p, n) ==
    LineNumber(s, LineStartOf(s, p)) + (IF IsNone(n) THEN 0 ELSE Unwrap(n) - 1)

\* the offsets that can be read as "the last character before the terminating
\* newline" of the line that starts at q: the newline's own offset (as the
\* test line_end_pos pins) or the offset of the char before it; for the final
\* line the last char before the buffer end, or the buffer end
LineEnds(s, q) ==
    LET m == memchr(NL, Slice(s, q, Len(s)))
    IN  IF IsSome(m)
        THEN { q + Unwrap(m), IF q + Unwrap(m) > 0 THEN q + Unwrap(m) - 1 ELSE 0 }
        ELSE IF Len(s) = 0 THEN { 0 } ELSE { Len(s) - 1, Len(s) }

\* C3: line_end_position(n) returns the offset of the last character before
\* the terminating newline of the selected line, or the last character before
\* the buffer end when the selected line is the final line (0 when no previous
\* character exists); stated for the calls whose selected line exists.
C3_LineEndPosition ==
    (op = "line_end_position" /\ ~failed
        /\ SelectedLine(data, old, arg[op][1]) \in 1..Cardinality(LineStarts(data)))
        => \E q \in LineStarts(data) :
                /\ LineNumber(data, q) = SelectedLine(data, old, arg[op][1])
                /\ ret[op] \in LineEnds(data, q)

\* C6 as claimed: for the line metric, prev(offset) for offset >= 1 never
\* returns the start of the line that contains offset.
C6_PrevNeverOwnLineStart ==
    (op = "Line::prev" /\ ~failed /\ IsSome(ret[op]))
        => Unwrap(ret[op]) # LineStartOf(data, arg[op][1])

\* C6 as amended: for offset >= 1, Line::prev(offset) at a line start (the
\* byte at offset - 1 is a newline) returns the start of the preceding line,
\* and strictly inside a line returns the start of the line that contains
\* offset; in both cases it returns None when that line start is offset 0.
C6_LinePrev ==
    (op = "Line::prev" /\ ~failed)
        => LET offset == arg[op][1]
               q == IF At(data, offset - 1) = NL
                    THEN LineStartOf(data, offset - 1)
                    ELSE LineStartOf(data, offset)
           IN  ret[op] = IF q = 0 THEN None ELSE Some(q)

\* C6 witness: Line::prev from strictly inside a line returned that line's start
C6_Witness ==
    /\ op = "Line::prev" /\ ~failed /\ IsSome(ret[op])
    /\ At(data, arg[op][1] - 1) # NL
    /\ Unwrap(ret[op]) = LineStartOf(data, arg[op][1])

Lookaheads == { "line_beginning_position", "line_end_position", "char_after",
                "looking_at", "capturing_at" }

\* C10: the lookahead queries never move the cursor: pos after
\* line_beginning_position(n), line_end_position(n), char_after(offset),
\* looking_at(re) and capturing_at(re) equals pos before the call, for every
\* call that returns.
C10_LookaheadsKeepPos ==
    (op \in Lookaheads /\ ~failed) => pos = old

\* C10 witness: a lookahead that scanned away from the cursor (its result is
\* another offset) returned with the cursor where it was
C10_Witness ==
    /\ op \in { "line_beginning_position", "line_end_position" } /\ ~failed
    /\ arg[op][1] \in { Some(0), Some(2) }
    /\ ret[op] # old
    /\ pos = old

\* the nodes below n, at every depth
RECURSIVE Descendants(_)
Descendants(n) ==
    UNION { { n.children[i] } \cup Descendants(n.children[i]) : i \in DOMAIN n.children }

\* what a parent back-reference to n holds
NodeRef(n) == << n.data, n.location >>

\* C7: the tree parse_buffer returns is parent-linked: every node in some
\* node's children list has its parent back-reference set to exactly that
\* node, and only the root OrgData node has no parent.
C7_ParentLinked ==
    (op = "parse_buffer" /\ ~failed)
        => /\ ret[op].parent = None
           /\ \A n \in { ret[op] } \cup Descendants(ret[op]) :
                \A i \in DOMAIN n.children :
                    n.children[i].parent = Some(NodeRef(n))

\* C8: is_greater_element is true for exactly the thirteen kinds CenterBlock,
\* Drawer, DynamicBlock, FootnoteDefinition, Headline, InlineTask, Item,
\* PlainList, PropertyDrawer, QuoteBlock, Section, SpecialBlock, Table, and
\* false for every other kind.
C8_GreaterElements ==
    op = "is_greater_element"
        => (ret[op] <=> arg[op][1] \in { "CenterBlock", "Drawer", "DynamicBlock",
                                 "FootnoteDefinition", "Headline", "InlineTask",
                                 "Item", "PlainList", "PropertyDrawer",
                                 "QuoteBlock", "Section", "SpecialBlock", "Table" })

\* C9: with granularity Headline every node of the tree parse_buffer returns,
\* at every depth, is a Headline: text before the first headline, the body of
\* a headline and a buffer without headlines give no Section node.
C9_OnlyHeadlines ==
    (op = "parse_buffer" /\ ~failed /\ granularity = "Headline")
        => \A n \in Descendants(ret[op]) : n.data = "Headline"

\* the start of line number k, the first line being 1
LineStartAt(s, k) == CHOOSE q \in LineStarts(s) : LineNumber(s, q) = k

\* the line start that line_beginning_position(n) is to report from offset p:
\* the start of the selected line, the buffer length when the selected line
\* is below the last line, 0 when it is above the first
SelectedLineStart(s, p, n) ==
    LET k == SelectedLine(s, p, n)
    IN  IF k < 1 THEN 0
        ELSE IF k > Cardinality(LineStarts(s)) THEN Len(s)
        ELSE LineStartAt(s, k)

\* C11: line_beginning_position(n) with the cursor on line L returns the
\* start of line L for n = None or 1, the start of line L + n - 1 (the buffer
\* length when that line does not exist) for n > 1, and the start of line
\* L - (1 - n) (0 when that line does not exist) for n <= 0; the result is the
\* same for every column of the cursor within line L.
C11_LineBeginningPosition ==
    op = "line_beginning_position"
        => /\ ~failed
           /\ ret[op] = SelectedLineStart(data, old, arg[op][1])
           /\ ret[op] = SelectedLineStart(data, LineStartOf(data, old), arg[op][1])

\* C11 witness: from a column inside its line, the cursor's line not the
\* first, line_beginning_position(n) with n <= 0 reported a line start above
C11_Witness ==
    /\ op = "line_beginning_position" /\ ~failed
    /\ IsSome(arg[op][1]) /\ Unwrap(arg[op][1]) <= 0
    /\ old > LineStartOf(data, old)
    /\ ret[op] > 0
    /\ ret[op] < LineStartOf(data, old)

\* the end offset of the k-th non-overlapping occurrence of str in s at or
\* after offset from (k >= 1), or -1 when there is none
RECURSIVE NthOccurrenceEnd(_, _, _, _)
NthOccurrenceEnd(s, str, from, k) ==
    LET starts == { i \in from..(Len(s) - Len(str)) : Slice(s, i, i + Len(str)) = str }
    IN  IF starts = { } THEN -1
        ELSE LET first == CHOOSE i \in starts : \A j \in starts : i <= j
             IN  IF k = 1 THEN first + Len(str)
                 ELSE NthOccurrenceEnd(s, str, first + Len(str), k - 1)

\* C12: search_forward(s, bound, count) succeeds exactly when the count-th
\* (default 1) non-overlapping occurrence of s at or after pos exists and ends
\* at an offset <= bound (default: the buffer end); it then returns that end
\* offset and moves the cursor there.  re_search_forward(re, bound) with a
\* bound <= len (on a char boundary) returns the absolute interval of the
\* first match of re in the text between pos and bound and moves the cursor
\* to the interval's end.  In every other case both return None and leave the
\* cursor, and neither moves the cursor backward.
C12_BoundedForwardSearch ==
    /\ op = "search_forward"
          => LET str == arg[op][1]
                 bound == UnwrapOr(arg[op][2], Len(data))
                 count == UnwrapOr(arg[op][3], 1)
                 e == IF count >= 1 THEN NthOccurrenceEnd(data, str, old, count) ELSE -1
             IN  /\ ~failed
                 /\ IF e >= 0 /\ e <= bound
                    THEN ret[op] = Some(e) /\ pos = e
                    ELSE ret[op] = None /\ pos = old
    /\ op = "re_search_forward"
          => LET bound == UnwrapOr(arg[op][2], Len(data))
                 m == IF bound >= old THEN find(arg[op][1], Slice(data, old, bound))
                      ELSE None
             IN  is_char_boundary(data, bound)
                    => /\ ~failed
                       /\ IF IsSome(m)
                          THEN /\ ret[op] = Some(Interval(old + Unwrap(m).start,
                                                          old + Unwrap(m).end))
                               /\ pos = old + Unwrap(m).end
                          ELSE ret[op] = None /\ pos = old
    /\ (op \in { "search_forward", "re_search_forward" } /\ ~failed) => pos >= old

\* the start of the line after the line that contains offset p, if any
FollowingLineStart(s, p) ==
    LET later == { q \in LineStarts(s) : q > p }
    IN  IF later = { } THEN None
        ELSE Some(CHOOSE q \in later : \A r \in later : q <= r)

\* the start of the line before the line that contains offset p, if any
PrecedingLineStart(s, p) ==
    LET earlier == { q \in LineStarts(s) : q < LineStartOf(s, p) }
    IN  IF earlier = { } THEN None
        ELSE Some(CHOOSE q \in earlier : \A r \in earlier : r <= q)

\* the interval of the line that starts at q, its newline included
LineInterval(s, q) ==
    LET m == memchr(NL, Slice(s, q, Len(s)))
    IN  Interval(q, IF IsSome(m) THEN q + Unwrap(m) + 1 ELSE Len(s))

\* what a line-lexeme move reports: the interval for lprev / lnext, the text
\* for get_lprev / get_lnext
LineReport(name, s, q) ==
    IF name \in { "lprev", "lnext" } THEN LineInterval(s, q)
    ELSE Slice(s, LineInterval(s, q).start, LineInterval(s, q).end)

\* C13: from a cursor offset in [1, len], lprev::<Line>() and
\* get_lprev::<Line>() move the cursor to the first byte of the line before
\* the cursor's line, lnext::<Line>() and get_lnext::<Line>() to the first byte
\* of the line after it, and report that line's interval (get_*: its text with
\* the newline); so a successful lprev decreases pos, a successful lnext
\* increases pos, and None leaves pos unchanged.
C13_LineLexemeMoves ==
    (op \in { "lprev", "get_lprev", "lnext", "get_lnext" }
        /\ arg[op] = << "Line" >> /\ old >= 1)
        => LET target == IF op \in { "lprev", "get_lprev" }
                         THEN PrecedingLineStart(data, old)
                         ELSE FollowingLineStart(data, old)
           IN  /\ ~failed
               /\ IF IsSome(target)
                  THEN /\ pos = Unwrap(target)
                       /\ ret[op] = Some(LineReport(op, data, Unwrap(target)))
                  ELSE ret[op] = None /\ pos = old

\* the offsets C14 speaks of: codepoint boundaries for the codepoint metric,
\* offsets >= 1 for the line metric
C14_Queried(M, s, o) ==
    \/ M = "Char" /\ is_char_boundary(s, o)
    \/ M = "Line" /\ o >= 1

\* C14: for the codepoint metric at codepoint boundaries and the line metric
\* at offsets >= 1, next(o) = Some(p) has p > o and prev(o) = Some(p) has
\* p < o; and for every boundary b of the metric with next(b) = Some(q),
\* prev(q) = Some(b).
C14_NextPrevInverse ==
    (op \in { "Metric::next", "Metric::prev" } /\ C14_Queried(arg[op][1], data, arg[op][2]))
        => /\ ~failed
           /\ IsSome(ret[op])
                 => IF op = "Metric::next"
                    THEN /\ Unwrap(ret[op]) > arg[op][2]
                         /\ Metric_is_boundary(arg[op][1], data, arg[op][2])
                               => Metric_prev(arg[op][1], data, Unwrap(ret[op]))
                                      = Some(arg[op][2])
                    ELSE Unwrap(ret[op]) < arg[op][2]

\* C14 witness: next was asked at a boundary of the line metric and found the
\* following line start
C14_Witness ==
    /\ op = "Metric::next" /\ ~failed
    /\ arg[op][1] = "Line"
    /\ Line_is_boundary(data, arg[op][2])
    /\ IsSome(ret[op])
    /\ Unwrap(ret[op]) > arg[op][2] + 1

C16_AtLineBegin ==
    op = "goto_line_begin"
        => /\ ~failed
           /\ pos = LineStartOf(data, old)
           /\ ret[op] = pos
           /\ \A b \in (pos + 1)..old : ~(At(data, b - 1) = NL)
           /\ ~is_bol_panics(data, pos) /\ is_bol(data, pos)

\* a goto_line_begin that follows a goto_line_begin returns the same offset
\* and does not move
C16_SecondCall ==
    (op = "goto_line_begin" /\ op' = "goto_line_begin")
        => (~failed' /\ ret' = ret /\ pos' = pos)

\* C16: goto_line_begin from any offset p in [0, len] sets pos to the
\* greatest b <= p such that b = 0 or byte b - 1 is a newline, and returns b;
\* afterwards is_bol() holds, and a second call returns the same b without
\* moving.
C16_GotoLineBeginIdempotent == []C16_AtLineBegin /\ [][C16_SecondCall]_vars

\* C16 witness: goto_line_begin moved the cursor back from inside a line that
\* is not the first
C16_Witness ==
    /\ op = "goto_line_begin" /\ ~failed
    /\ pos > 0 /\ pos < old
    /\ ret[op] = pos

\* skip_chars_backward(cs, Some(p)) right after a skip_chars_forward(cs, None)
\* that started at p and returned k: it returns k and the cursor is at p
C17_BackAfterForward ==
    (/\ op = "skip_chars_forward" /\ arg[op][2] = None
     /\ op' = "skip_chars_backward"
     /\ arg'[op'] = << arg[op][1], Some(old) >>)
        => /\ ~failed'
           /\ ret'[op'] = ret[op]
           /\ pos' = old
           /\ ret[op] >= 0

\* C17: from a codepoint-boundary offset p, if skip_chars_forward(cs, None)
\* returns k, an immediately following skip_chars_backward(cs, Some(p))
\* returns k as well and leaves the cursor at p; both values are >= 0.
C17_SkipRoundTrip == [][C17_BackAfterForward]_vars

\* C17 witness: skip_chars_backward came back over two chars, one of them of
\* two bytes, to its limit, where a forward skip of the same set can have
\* started
C17_Witness ==
    /\ op = "skip_chars_backward" /\ ~failed
    /\ arg[op][2] = Some(pos)
    /\ ret[op] = 2
    /\ old = pos + 3
    /\ skip_chars_forward(data, pos, arg[op][1], None) = R(old, 2)

\* the first offset at or after p that holds no whitespace character, or the
\* buffer length
WhitespaceRunEnd(s, p) ==
    CHOOSE q \in p..Len(s) :
        /\ \A i \in p..(q - 1) : At(s, i) \in { SP, NL }
        /\ q = Len(s) \/ At(s, q) \notin { SP, NL }

\* skip_whitespace left the cursor at the end of the whitespace run and
\* returned that offset
C18_AtRunEnd ==
    op = "skip_whitespace"
        => /\ ~failed
           /\ pos = WhitespaceRunEnd(data, old)
           /\ ret[op] = pos

\* lnext::<Char>() right after a skip_whitespace that reached the buffer end
\* returns None
C18_ThenNoChar ==
    (/\ op = "skip_whitespace" /\ pos = Len(data)
     /\ op' = "lnext" /\ arg'[op'] = << "Char" >>)
        => (~failed' /\ ret'[op'] = None /\ pos' = pos)

\* C18: skip_whitespace moves the cursor forward over the maximal run of
\* whitespace characters starting at pos and returns the new pos: the cursor
\* ends at the first non-whitespace character at or after the old pos, or at
\* len when only whitespace remains, and then a following lnext::<Char>()
\* returns None.
C18_SkipWhitespace == []C18_AtRunEnd /\ [][C18_ThenNoChar]_vars

\* C18 witness: skip_whitespace went over two whitespace characters and
\* stopped before a character that is not whitespace
C18_Witness ==
    /\ op = "skip_whitespace" /\ ~failed
    /\ pos = old + 2
    /\ pos < Len(data)
    /\ ret[op] = pos

\* the object kinds, as the claims list them
ObjectKinds ==
    { "Bold", "Code", "Entity", "ExportSnippet", "FootnoteReference",
      "InlineBabelCall", "InlineSrcBlock", "Italic", "LineBreak", "LatexFragment",
      "Link", "Macro", "RadioTarget", "StatisticsCookie", "StrikeThrough",
      "Subscript", "Superscript", "TableCell", "Target", "Timestamp",
      "Underline", "Verbatim", "PlainText" }

StandardSetContainers ==
    { "Bold", "Italic", "FootnoteReference", "Paragraph", "StrikeThrough",
      "Subscript", "Superscript", "Underline", "VerseBlock" }

\* C19: can_contain(self, that) is the fixed relation: Link contains none of
\* Link, RadioTarget, LineBreak; RadioTarget contains neither RadioTarget nor
\* Link; every standard-set container (Bold, Italic, FootnoteReference,
\* Paragraph, StrikeThrough, Subscript, Superscript, Underline, VerseBlock)
\* contains every object kind except TableCell; Keyword contains the standard
\* set except FootnoteReference; TableCell is contained only by TableRow; and
\* can_contain(a, b) is false whenever b is not an object kind.
C19_ContainmentMatrix ==
    op = "can_contain"
        => LET self == arg[op][1]
               that == arg[op][2]
           IN  /\ ~failed
               /\ (self = "Link" /\ that \in { "Link", "RadioTarget", "LineBreak" })
                     => ret[op] = FALSE
               /\ (self = "RadioTarget" /\ that \in { "RadioTarget", "Link" })
                     => ret[op] = FALSE
               /\ self \in StandardSetContainers
                     => (ret[op] <=> that \in ObjectKinds \ { "TableCell" })
               /\ self = "Keyword"
                     => (ret[op] <=> that \in ObjectKinds \ { "TableCell",
                                                               "FootnoteReference" })
               /\ that = "TableCell" => (ret[op] <=> self = "TableRow")
               /\ that \notin ObjectKinds => ret[op] = FALSE

\* C19 witness: a standard-set container was asked about Link and can
\* contain it
C19_Witness ==
    /\ op = "can_contain" /\ ~failed
    /\ arg[op] = << "Bold", "Link" >>
    /\ ret[op] = TRUE

BlankFrom(s, q) ==
    \A o \in q..(Cursor_lookahead_end(s, q) - 1) : At(s, o) \in { SP, TAB }

\* the line that starts at q is an affiliated keyword line
KeywordLineAt(s, q) == IsSome(Cursor_capturing_at(s, q, RE_AFFILIATED))

\* the first line start at or after origin that is at or after limit or
\* that begins no affiliated keyword
RECURSIVE CollectorStop(_, _, _)
CollectorStop(s, q, limit) ==
    IF q >= limit \/ ~KeywordLineAt(s, q) \/ IsNone(Line_next(s, q)) THEN q
    ELSE CollectorStop(s, Unwrap(Line_next(s, q)), limit)

C28_CollectorCompletes ==
    op = "collect_affiliated_keywords"
        => /\ ~failed
           /\ LET cap == Cursor_capturing_at(data, old, RE_AFFILIATED)
                  name == Captures_name(Unwrap(cap), "NAME")
              IN  (/\ old = 0 \/ At(data, old - 1) = NL
                   /\ old < arg[op][1]
                   /\ IsNone(Line_next(data, old))
                   /\ IsSome(cap) /\ IsSome(name))
                      => /\ IsSome(ret[op][2])
                         /\ Unwrap(ret[op][2]).name
                              = Some(trim(Slice(data, old + Unwrap(name).end + 1,
                                                Len(data))))

\* C24: inside a property drawer only node properties are parsed: when
\* current_element returned a PropertyDrawer node with a content interval and
\* granularity is Element or Object, parse_elements parses that interval as
\* elements with mode NodeProperty, and never hands it to parse_objects.
C24_PropertyDrawerChildren ==
    (/\ op = "parse_elements"
     /\ arg[op][1].data = "PropertyDrawer"
     /\ arg[op][1].content_location # None
     /\ granularity \in { "Element", "Object" })
        => /\ ret[op].call = "parse_elements"
           /\ ret[op].with = "NodeProperty"

ParentEntryMode ==
    [Headline |-> "Section", InlineTask |-> "Planning", PlainList |-> "Item",
     PropertyDrawer |-> "NodeProperty", Section |-> "Planning", Table |-> "TableRow"]

SiblingExitMode ==
    [Item |-> "Item", NodeProperty |-> "NodeProperty", Planning |-> "PropertyDrawer",
     TableRow |-> "TableRow"]

\* the value of a lookup table for a kind, None where it is undefined
Lookup(table, syntax) ==
    IF syntax \in DOMAIN table THEN Some(table[syntax]) ELSE None

\* C25: the parser mode evolves only by the two lookup tables:
\* next_mode(kind, true) is Section for Headline, Planning for InlineTask, Item
\* for PlainList, NodeProperty for PropertyDrawer, Planning for Section,
\* TableRow for Table and undefined otherwise; next_mode(kind, false) is Item
\* for Item, NodeProperty for NodeProperty, PropertyDrawer for Planning,
\* TableRow for TableRow and undefined otherwise.  In parse_elements the mode
\* for the next sibling is the sibling-exit value of the node just parsed
\* when defined and otherwise the current mode, and the mode passed to a
\* recursive call is the parent-entry value when defined and otherwise the
\* current mode; recursing does not change the mode of the next sibling.
C25_ModeEvolution ==
    /\ op = "next_mode"
          => ret[op] = Lookup(IF arg[op][2] THEN ParentEntryMode ELSE SiblingExitMode,
                              arg[op][1])
    /\ op = "parse_elements"
          => LET kind == arg[op][1].data
                 mode == arg[op][2]
             IN  /\ ret[op].next = UnwrapOr(Lookup(SiblingExitMode, kind), mode)
                 /\ ret[op].call = "parse_elements"
                       => ret[op].with = UnwrapOr(Lookup(ParentEntryMode, kind), mode)

\* C25 witness: a Headline with contents was met in mode Planning: its
\* contents are parsed in mode Section and the next sibling in mode Planning
C25_Witness ==
    /\ op = "parse_elements"
    /\ arg[op][1].data = "Headline"
    /\ arg[op][2] = "Planning"
    /\ ret[op].call = "parse_elements"
    /\ ret[op].with = "Section"
    /\ ret[op].next = "Planning"

\* offsets p <= q lie on the same line: no newline in data[p..q]
SameLine(s, p, q) == \A o \in p..(q - 1) : At(s, o) # NL

\* C29: line_end_position depends only on the line, not on the column: for
\* any two cursor offsets on the same line (the line's first byte and the
\* final line of the buffer included) and any n, line_end_position(n) returns
\* the same value.
C29_LineEndColumnFree ==
    (op = "line_end_position" /\ ~failed)
        => \A q \in Positions(data) :
              (SameLine(data, Min(q, old), IF q < old THEN old ELSE q))
                  => LET other == line_end_position(data, q, arg[op][1])
                     IN  ~other.failed /\ other.ret = ret[op]


\* the text of the line at c, from its first non-blank byte on
RECURSIVE SkipBlank(_)
SkipBlank(t) == IF Len(t) > 0 /\ t[1] \in ReBlank.s THEN SkipBlank(Tail(t)) ELSE t

LineFrom(s, c) == SkipBlank(Slice(s, c, Cursor_lookahead_end(s, c)))

\* the parser for a line, from what follows its # on
HashtagParser(rest) ==
    LET starts(re) == Regex_captures(ReSeq(ReBol, re), rest)
    IN  IF Len(rest) = 0 \/ rest[1] = SP THEN "comment_parser"
        ELSE IF IsSome(starts(RE_BLOCK_BEGIN))
        THEN block_parser(to_ascii_uppercase(
                 Slice(rest, Unwrap(Captures_name(Unwrap(starts(RE_BLOCK_BEGIN)), "1")).start,
                       Unwrap(Captures_name(Unwrap(starts(RE_BLOCK_BEGIN)), "1")).end)))
        ELSE IF IsSome(starts(RE_BABEL_CALL)) THEN "babel_call_parser"
        ELSE IF IsSome(starts(RE_DYNAMIC_BLOCK)) THEN "dynamic_block_parser"
        ELSE IF IsSome(starts(RE_KEYWORD)) THEN "keyword_parser"
        ELSE "paragraph_parser"

\* C22: a line whose first non-blank character is # and that reaches the
\* last stage of current_element goes to the comment parser iff a space or
\* the end of the line follows the #, else to the block parser of its
\* #+BEGIN_NAME, the babel-call parser for #+CALL:, the dynamic-block parser
\* for #+BEGIN: , the keyword parser for #+KEY:, else the paragraph parser.
C22_HashtagClassification ==
    (op = "current_element" /\ ~failed /\ ret[op].stage = "hashtag") =>
        LET c == collect_affiliated_keywords(data, old, arg[op][1]).pos
            line == LineFrom(data, c)
        IN  (Len(line) > 0 /\ line[1] = HASH) =>
                ret[op].parser = HashtagParser(Tail(line))

\* C23: whenever current_element calls a leaf parser for a construct that
\* starts at the beginning of a line, the cursor is at the first byte of
\* that line: the offset current_element was entered at, or the first line
\* after the affiliated keywords collected, wherever in the buffer it is.
C23_DispatchAtLineStart ==
    (op = "current_element" /\ ~failed /\ ret[op].stage \in { "affiliated", "hashtag" }) =>
        ret[op].at \in { old, collect_affiliated_keywords(data, old, arg[op][1]).pos }
FrameNodes(f) ==
    f.elements \o (IF IsSome(f.pending) THEN << Unwrap(f.pending) >> ELSE << >>)

\* the frames of the calls in progress, and the one that just returned
Frames ==
    IF op \in LoopOps /\ ~failed
    THEN { ret[op].stack[i] : i \in 1..Len(ret[op].stack) }
             \cup { Unwrap(r).frame : r \in { ret[op].returned } \ { None } }
    ELSE { }

Contiguous(f) ==
    LET nodes == FrameNodes(f)
    IN  /\ Len(f.at) = Len(nodes)
        /\ Len(nodes) > 0 => f.at[1] = f.beg
        /\ \A i \in 1..Len(nodes) :
              /\ f.at[i] < f.end
              /\ nodes[i].location.start = f.at[i]
              /\ i > 1 => /\ f.at[i] = nodes[i - 1].location.end
                          /\ nodes[i - 1].location.end = nodes[i].location.start

\* C27: under a granularity other than Headline the first element of
\* parse_elements is classified at beg and every later one at the end of the
\* element before it, the elements are pushed in that order, and the loop
\* stops at the first offset >= end; each element ends where the next begins.
C27_SiblingsContiguous ==
    granularity # "Headline" =>
        /\ \A f \in Frames : Contiguous(f)
        /\ (op = "parse_elements_return" /\ ~failed)
              => LET r == Unwrap(ret[op].returned)
                     nodes == r.frame.elements
                 IN  /\ r.left_at >= r.frame.end
                     /\ r.left_at = IF nodes = << >> THEN r.frame.beg
                                    ELSE nodes[Len(nodes)].location.end

\* C27 witness: under granularity Element a call returned three elements
C27_Witness ==
    /\ granularity = "Element"
    /\ op = "parse_elements_return"
    /\ ~failed
    /\ Len(Unwrap(ret[op].returned).frame.elements) = 3

\* every round of a loop left the cursor further than it found it
Progress(f) ==
    LET nodes == FrameNodes(f)
    IN  \A i \in 1..Len(f.at) :
           /\ i <= Len(nodes) => nodes[i].location.end > f.at[i]
           /\ i > 1 => f.at[i] > f.at[i - 1]

=========================================================================
